---- MODULE Spec2Model ----
(***************************************************************************)
(* Authentication and session-trust core of the culinaryhub backend        *)
(* (routes/auth.ts, middleware/auth.ts, db.ts, setup/app.ts) together with *)
(* the front end's useAuth hook.                                           *)
(*                                                                         *)
(* Every HTTP request is a small process: the session middleware loads the *)
(* session (Receive), the route runs up to its first await (Route), each   *)
(* database statement is one step, and the response is written and the     *)
(* session saved at the end (Finish, or inline for synchronous handlers).  *)
(* Requests in different slots interleave freely.                          *)
(*                                                                         *)
(* Time is counted in milliseconds.  The clock never gets near the         *)
(* cookie's one-hour maxAge, so store-side cookie expiry never fires and   *)
(* is left out.                                                            *)
(***************************************************************************)
EXTENDS Integers, Sequences, FiniteSets, TLC

\* ---------------------------------------------------------------- bounds
MaxRequests == 3
MaxVerifyRequests == 4
MaxTicks == 7
MaxOtpTicks == 1
MaxFeCalls == 3
MaxLogoutRequests == 6
MaxAfkRequests == 3
MaxSessRequests == 4
MaxRegRequests == 3
MaxActRequests == 4
MaxActTicks == 2
MaxAdminRequests == 3
MaxPostsRequests == 3
MaxWordsRequests == 2
MaxFilesRequests == 3
MaxServeRequests == 3
MaxOrderRequests == 3
MaxExpRequests == 3
MaxExpTicks == 3
MaxIdleRequests == 3
MaxIdleTicks == 2
MaxFaultRequests == 3
MaxStaleRequests == 3
MaxRetryRequests == 3
MaxRetryTicks == 1
MaxOwnerRequests == 3

Req == {"r1", "r2"}

TickMs == 5 * 60 * 1000
OtpTtlMs == 10 * 60 * 1000
AFK_TIMEOUT_MS == 25 * 60 * 1000

\* ------------------------------------------------------------ value sets
Codes == {"111111", "222222"}

ToLower(e) ==
  CASE e = "New@example.com" -> "new@example.com"
    [] e = "User@example.com" -> "user@example.com"
    [] OTHER -> e

BcryptHash(p) == <<"bcrypt", p>>
BcryptCompare(p, h) == h = BcryptHash(p)

SeedUsers ==
  (1 :> [email |-> "admin@example.com", password_hash |-> BcryptHash("Admin123!"), role |-> "admin"]) @@
  (2 :> [email |-> "editor@example.com", password_hash |-> BcryptHash("Editor123!"), role |-> "editor"]) @@
  (3 :> [email |-> "user@example.com", password_hash |-> BcryptHash("User123!"), role |-> "user"])

NoUser == [id |-> 0, email |-> "", password_hash |-> <<>>, role |-> "none"]
NoSess == [userId |-> 0, lastActivity |-> 0, csrfSecret |-> 0]
NoRes == [status |-> 0, body |-> "", userId |-> 0, otp |-> "", token |-> 0, log |-> "none",
          rows |-> {}]
NoOut == [slot |-> "none", kind |-> "none", status |-> 0, body |-> "", userId |-> 0,
          otp |-> "", token |-> 0, log |-> "none", cookie |-> 0, setCookie |-> 0,
          late |-> FALSE, fe |-> FALSE, xcsrf |-> 0, rows |-> {}, id |-> 0,
          code |-> ""]

Idle == [pc |-> "idle", kind |-> "none", cookie |-> 0, token |-> 0, sid |-> 0,
         sess |-> NoSess, orig |-> NoSess, email |-> "", pw |-> "", uid |-> 0,
         code |-> "", user |-> NoUser, row |-> 0, t |-> 0, res |-> NoRes, late |-> FALSE,
         fe |-> FALSE, stale |-> FALSE, roles |-> {}, id |-> 0, title |-> <<>>,
         content |-> <<>>, file |-> 0, scan |-> "none", found |-> 0, stored |-> 0]

VARIABLES
  users,        \* users table: id -> row
  nextUserId,   \* AUTOINCREMENT of users
  otp,          \* otp_codes table: set of rows
  nextOtpId,    \* AUTOINCREMENT of otp_codes
  store,        \* express-session MemoryStore: sid -> session
  nextSid,      \* next fresh session identifier
  nextSecret,   \* next fresh CSRF secret
  now,          \* Date.now()
  req,          \* the requests in flight, per slot
  out,          \* the response written by the last step (NoOut if none)
  tokens,       \* CSRF tokens handed out: pairs <<token, sid it was fetched on>>
  authVia,      \* sid -> route whose regenerate created it
  consumed,     \* otp row id -> number of verifyOtpCode calls that resolved true on it
  credOk,       \* user ids whose credentials a login or register has verified
  loggedOut,    \* sids whose logout has completed
  nReq,         \* number of requests received so far
  fe,           \* the front end (useAuth): csrfToken, cookie jar, position
  posts,        \* posts table: id -> row
  nextPostId,   \* AUTOINCREMENT of posts
  files,        \* file_uploads table: id -> row
  nextFileId,   \* AUTOINCREMENT of file_uploads
  disk,         \* names of the files in the upload directories
  nextName      \* next unique stored name multer gives an uploaded file

dbVars == <<users, nextUserId, otp, nextOtpId>>
histVars == <<tokens, authVia, consumed, credOk, loggedOut, nReq>>
cmsVars == <<posts, nextPostId, files, nextFileId, disk, nextName>>
vars == <<users, nextUserId, otp, nextOtpId, store, nextSid, nextSecret, now, req, out,
          tokens, authVia, consumed, credOk, loggedOut, nReq, fe,
          posts, nextPostId, files, nextFileId, disk, nextName>>

\* the content tables and the upload directories of a fresh installation
CmsInit ==
  /\ posts = <<>>
  /\ nextPostId = 1
  /\ files = <<>>
  /\ nextFileId = 1
  /\ disk = {}
  /\ nextName = 1

FeInit == [pc |-> "boot", fn |-> "bootstrap", csrfToken |-> 0, cookie |-> 0, otpPending |-> 0,
           otp |-> "", user |-> 0, regen |-> FALSE, calls |-> 0]

Init ==
  /\ users = SeedUsers
  /\ nextUserId = 4
  /\ otp = {}
  /\ nextOtpId = 1
  /\ store = <<>>
  /\ nextSid = 1
  /\ nextSecret = 1
  /\ now = TickMs
  /\ req = [r \in Req |-> Idle]
  /\ out = NoOut
  /\ tokens = {}
  /\ authVia = <<>>
  /\ consumed = <<>>
  /\ credOk = {}
  /\ loggedOut = {}
  /\ nReq = 0
  /\ fe = FeInit
  /\ CmsInit

\* ------------------------------------------------------------- helpers
Put(f, k, v) == (k :> v) @@ f
Remove(f, k) == [x \in DOMAIN f \ {k} |-> f[x]]

Method(kind) ==
  CASE kind \in {"csrf-token", "me", "check-activity", "status", "posts-list", "posts-get",
                 "posts-pending", "files-list", "files-download", "posts-image"} -> "GET"
    [] kind \in {"delete-user", "posts-delete", "files-delete"} -> "DELETE"
    [] kind \in {"posts-update"} -> "PUT"
    [] OTHER -> "POST"

\* db.ts
findUserByEmail(email) ==
  IF \E u \in DOMAIN users : users[u].email = email
  THEN LET u == CHOOSE u \in DOMAIN users : users[u].email = email
       IN [id |-> u, email |-> users[u].email, password_hash |-> users[u].password_hash,
           role |-> users[u].role]
  ELSE NoUser

findUserById(id) ==
  IF id \in DOMAIN users
  THEN [id |-> id, email |-> users[id].email, password_hash |-> users[id].password_hash,
        role |-> users[id].role]
  ELSE NoUser

\* csurf({cookie: false}): the secret lives in req.session.csrfSecret and is created
\* on the first request that finds none; a token is valid for the secret it was made
\* from (a token made from secret k is written k).
CsrfSess(q) == IF q.sess.csrfSecret = 0 THEN [q.sess EXCEPT !.csrfSecret = nextSecret] ELSE q.sess
CsrfNext(q) == IF q.sess.csrfSecret = 0 THEN nextSecret + 1 ELSE nextSecret
CsrfOk_Unchecked(q) == TRUE

CsrfOk(q) == Method(q.kind) = "GET" \/ (q.token # 0 /\ q.token = CsrfSess(q).csrfSecret)

\* middleware/errorHandler.ts: the status of the opaque answer
errorHandler(statusCode) == IF statusCode >= 400 THEN statusCode ELSE 500
ErrRes == [NoRes EXCEPT !.status = errorHandler(200), !.body = "Internal server error",
                        !.log = "server_error"]

Res(status, body) == [NoRes EXCEPT !.status = status, !.body = body]
ResLog(status, body, reason) == [NoRes EXCEPT !.status = status, !.body = body, !.log = reason]

MkOut(r, q, res, setCookie) ==
  [slot |-> r, kind |-> q.kind, status |-> res.status, body |-> res.body, userId |-> res.userId,
   otp |-> res.otp, token |-> res.token, log |-> res.log, cookie |-> q.cookie,
   setCookie |-> setCookie, late |-> q.late, fe |-> q.fe, xcsrf |-> q.token, rows |-> res.rows,
   id |-> q.id, code |-> q.code]

\* express-session's res.end hook with the session still on the request: the session
\* is written back when it differs from what was loaded (store.set, which also
\* re-creates a record that was destroyed meanwhile), and the cookie is set then.
Reply(r, q, sess, res) ==
  /\ store' = IF sess # q.orig THEN Put(store, q.sid, sess) ELSE store
  /\ out' = MkOut(r, q, res, IF sess # q.orig THEN q.sid ELSE 0)
  /\ req' = [req EXCEPT ![r] = Idle]

\* The answer of a handler that ran after a database callback.  res.end runs in a
\* later turn when it has a session to write; when the session is as it was loaded,
\* res.end writes nothing and the answer is given at once.
Later(r, q, sess, res) ==
  IF sess = q.orig
  THEN Reply(r, q, sess, res)
  ELSE /\ req' = [req EXCEPT ![r] = [q EXCEPT !.pc = "finish", !.sess = sess, !.res = res]]
       /\ out' = NoOut
       /\ store' = store

Goto(r, q) ==
  /\ req' = [req EXCEPT ![r] = q]
  /\ out' = NoOut
  /\ store' = store

\* ------------------------------------------------------------- requests
\* the challenges stored for identity uid, and whether `code` is a code issued for uid
\* earlier than uid's newest challenge (and not the code of the newest one)
challengesOf(uid) == {row \in otp : row.user_id = uid}

earlierCode(uid, code) ==
  /\ \E row \in challengesOf(uid) : row.code = code
  /\ \E new \in challengesOf(uid) :
       /\ \A row \in challengesOf(uid) : row.id <= new.id
       /\ new.code # code

\* A request arrives and express-session loads its session: the stored one when the
\* cookie names a record of the store, a freshly generated one otherwise.
\* (The slots are interchangeable: a request takes r2 only while r1 is busy.)
Receive(r, kind, cookie, token, email, pw, uid, code, isFe) ==
  LET hit == cookie \in DOMAIN store
      sess == IF hit THEN store[cookie] ELSE NoSess IN
  /\ req[r].pc = "idle"
  /\ r = "r1" \/ req["r1"].pc # "idle"
  /\ req' = [req EXCEPT ![r] =
               [Idle EXCEPT !.pc = "route", !.kind = kind, !.cookie = cookie,
                            !.token = token, !.sid = IF hit THEN cookie ELSE nextSid,
                            !.sess = sess, !.orig = sess, !.email = email, !.pw = pw,
                            !.uid = uid, !.code = code, !.late = cookie \in loggedOut,
                            !.fe = isFe,
                            !.stale = (kind = "verify-otp" /\ earlierCode(uid, code))]]
  /\ nextSid' = IF hit THEN nextSid ELSE nextSid + 1
  /\ out' = NoOut
  /\ UNCHANGED <<cmsVars, dbVars, store, nextSecret, now, tokens, authVia, consumed, credOk, loggedOut>>

\* csurf rejects a state-changing request whose token does not match the secret of
\* its session: next(err), answered by errorHandler.
CsrfReject(r) ==
  LET q == req[r] IN
  /\ q.pc = "route"
  /\ ~CsrfOk(q)
  /\ Reply(r, q, CsrfSess(q), ErrRes)
  /\ nextSecret' = CsrfNext(q)
  /\ UNCHANGED <<cmsVars, dbVars, nextSid, now, histVars, fe>>

\* GET /api/csrf-token
CsrfToken(r) ==
  LET q == req[r]
      sess == CsrfSess(q) IN
  /\ q.pc = "route"
  /\ q.kind = "csrf-token"
  /\ Reply(r, q, sess, [Res(200, "csrfToken") EXCEPT !.token = sess.csrfSecret])
  /\ nextSecret' = CsrfNext(q)
  /\ tokens' = tokens \cup {<<sess.csrfSecret, q.sid>>}
  /\ UNCHANGED <<cmsVars, dbVars, nextSid, now, authVia, consumed, credOk, loggedOut, nReq, fe>>

\* res.end of a handler that answered after a database callback
Finish(r) ==
  LET q == req[r] IN
  /\ q.pc = "finish"
  /\ Reply(r, q, q.sess, q.res)
  /\ UNCHANGED <<cmsVars, dbVars, nextSid, nextSecret, now, histVars, fe>>

\* A state-changing route under csrfProtection whose handler starts with a database
\* read: csurf passes, the body is parsed, the read is issued.
validPayload(q) ==
  CASE q.kind = "register" -> Len(q.pw) >= 8
    [] q.kind = "login" -> Len(q.pw) >= 1
    [] q.kind = "verify-otp" -> Len(q.code) = 6
    [] OTHER -> TRUE

firstRead(kind) ==
  CASE kind = "register" -> "reg_find"
    [] kind = "login" -> "login_find"
    [] kind = "verify-otp" -> "vfy_user"
    [] kind = "resend-otp" -> "rs_user"

RouteBody(r) ==
  LET q == req[r]
      sess == CsrfSess(q) IN
  /\ q.pc = "route"
  /\ q.kind \in {"register", "login", "verify-otp", "resend-otp"}
  /\ CsrfOk(q)
  /\ IF validPayload(q)
     THEN Goto(r, [q EXCEPT !.pc = firstRead(q.kind), !.sess = sess])
     ELSE Reply(r, q, sess, Res(400, "Invalid payload"))
  /\ nextSecret' = CsrfNext(q)
  /\ UNCHANGED <<cmsVars, dbVars, nextSid, now, histVars, fe>>

\* POST /register: findUserByEmail(email)
RegFind(r) ==
  LET q == req[r] IN
  /\ q.pc = "reg_find"
  /\ IF findUserByEmail(q.email) # NoUser
     THEN Later(r, q, q.sess, Res(409, "Email already in use"))
     ELSE Goto(r, [q EXCEPT !.pc = "reg_insert"])
  /\ UNCHANGED <<cmsVars, dbVars, nextSid, nextSecret, now, histVars, fe>>

\* createUser(name, email.toLowerCase(), hash, 'user'): the INSERT (email is UNIQUE)
RegInsert(r) ==
  LET q == req[r]
      email == ToLower(q.email) IN
  /\ q.pc = "reg_insert"
  /\ IF \E u \in DOMAIN users : users[u].email = email
     THEN /\ Later(r, q, q.sess, ErrRes)
          /\ UNCHANGED <<cmsVars, users, nextUserId>>
     ELSE /\ users' = Put(users, nextUserId,
                         [email |-> email, password_hash |-> BcryptHash(q.pw), role |-> "user"])
          /\ nextUserId' = nextUserId + 1
          /\ Goto(r, [q EXCEPT !.pc = "reg_fetch", !.uid = nextUserId])
  /\ UNCHANGED <<cmsVars, otp, nextOtpId, nextSid, nextSecret, now, histVars, fe>>

\* the branch of login and register: if (user.role === 'user')
needsOtp_Nobody(user) == FALSE

needsOtp(user) == user.role = "user"

\* generateOtp and the expiry of the challenge, then createOtpCode is called
issueOtp(r, q, user) ==
  \E code \in Codes :
    Goto(r, [q EXCEPT !.pc = "otp_update", !.user = user, !.code = code, !.t = now + OtpTtlMs])

\* createUser: findUserById(this.lastID), then the role branch of POST /register
RegFetch(r) ==
  LET q == req[r]
      user == findUserById(q.uid) IN
  /\ q.pc = "reg_fetch"
  /\ IF user = NoUser
     THEN /\ Later(r, q, q.sess, ErrRes)
          /\ credOk' = credOk
     ELSE /\ credOk' = credOk \cup {user.id}
          /\ IF needsOtp(user)
             THEN issueOtp(r, q, user)
             ELSE Goto(r, [q EXCEPT !.pc = "regen", !.user = user,
                                    !.sess = [q.sess EXCEPT !.userId = user.id]])
  /\ UNCHANGED <<cmsVars, dbVars, nextSid, nextSecret, now, tokens, authVia, consumed, loggedOut,
                 nReq, fe>>

\* POST /login: the answer to an unknown email and to a wrong password
invalidCredentials_Leaky(reason) ==
  ResLog(IF reason = "user_not_found" THEN 404 ELSE 401, "Invalid credentials", reason)

invalidCredentials(reason) == ResLog(401, "Invalid credentials", reason)

\* POST /login: findUserByEmail(email.toLowerCase()), bcrypt.compare, the role branch
LoginFind(r) ==
  LET q == req[r]
      user == findUserByEmail(ToLower(q.email)) IN
  /\ q.pc = "login_find"
  /\ IF user = NoUser
     THEN /\ Later(r, q, q.sess, invalidCredentials("user_not_found"))
          /\ credOk' = credOk
     ELSE IF ~BcryptCompare(q.pw, user.password_hash)
     THEN /\ Later(r, q, q.sess, invalidCredentials("bad_password"))
          /\ credOk' = credOk
     ELSE /\ credOk' = credOk \cup {user.id}
          /\ IF needsOtp(user)
             THEN issueOtp(r, q, user)
             ELSE Goto(r, [q EXCEPT !.pc = "regen", !.user = user])
  /\ UNCHANGED <<cmsVars, dbVars, nextSid, nextSecret, now, tokens, authVia, consumed, loggedOut,
                 nReq, fe>>

\* POST /resend-otp: if (user.role !== 'user')
otpNotRequired_Never(user) == FALSE

otpNotRequired(user) == user.role # "user"

\* POST /resend-otp: findUserById(userId), the role check
RsUser(r) ==
  LET q == req[r]
      user == findUserById(q.uid) IN
  /\ q.pc = "rs_user"
  /\ IF user = NoUser
     THEN Later(r, q, q.sess, Res(404, "User not found"))
     ELSE IF otpNotRequired(user)
     THEN Later(r, q, q.sess, Res(400, "OTP not required for this user"))
     ELSE issueOtp(r, q, user)
  /\ UNCHANGED <<cmsVars, dbVars, nextSid, nextSecret, now, histVars, fe>>

\* createOtpCode, first statement: UPDATE otp_codes SET used = 1 WHERE user_id = ? AND used = 0
OtpUpdate(r) ==
  LET q == req[r] IN
  /\ q.pc = "otp_update"
  /\ otp' = {IF row.user_id = q.user.id /\ row.used = 0 THEN [row EXCEPT !.used = 1] ELSE row :
               row \in otp}
  /\ Goto(r, [q EXCEPT !.pc = "otp_insert"])
  /\ UNCHANGED <<cmsVars, users, nextUserId, nextOtpId, nextSid, nextSecret, now, histVars, fe>>

\* what login, register and resend-otp answer once the challenge is stored
otpIssued(q) ==
  CASE q.kind = "register" ->
         [NoRes EXCEPT !.status = 201, !.body = "requiresOtp", !.userId = q.user.id,
                       !.otp = q.code, !.log = "otp_generated"]
    [] q.kind = "login" ->
         [NoRes EXCEPT !.status = 200, !.body = "requiresOtp", !.userId = q.user.id,
                       !.otp = q.code, !.log = "otp_generated"]
    [] OTHER ->
         [NoRes EXCEPT !.status = 200, !.body = "New OTP sent", !.otp = q.code,
                       !.log = "otp_resent"]

\* createOtpCode, second statement: INSERT INTO otp_codes; then the route answers
OtpInsert(r) ==
  LET q == req[r] IN
  /\ q.pc = "otp_insert"
  /\ otp' = otp \cup {[id |-> nextOtpId, user_id |-> q.user.id, code |-> q.code,
                       expires_at |-> q.t, used |-> 0]}
  /\ nextOtpId' = nextOtpId + 1
  /\ Later(r, q, q.sess, otpIssued(q))
  /\ UNCHANGED <<cmsVars, users, nextUserId, nextSid, nextSecret, now, histVars, fe>>

\* POST /verify-otp: findUserById(userId); verifyOtpCode takes its `now`
VfyUser(r) ==
  LET q == req[r]
      user == findUserById(q.uid) IN
  /\ q.pc = "vfy_user"
  /\ IF user = NoUser
     THEN Later(r, q, q.sess, Res(404, "User not found"))
     ELSE Goto(r, [q EXCEPT !.pc = "vfy_select", !.user = user, !.t = now])
  /\ UNCHANGED <<cmsVars, dbVars, nextSid, nextSecret, now, histVars, fe>>

\* verifyOtpCode, first statement:
\* SELECT * FROM otp_codes WHERE user_id = ? AND code = ? AND used = 0 AND expires_at > ?
otpMatches_AnyOwner(q) ==
  {row \in otp : row.code = q.code /\ row.used = 0 /\ row.expires_at > q.t}

otpMatches_AtExpiry(q) ==
  {row \in otp : row.user_id = q.uid /\ row.code = q.code /\ row.used = 0 /\ row.expires_at >= q.t}

otpMatches(q) ==
  {row \in otp : row.user_id = q.uid /\ row.code = q.code /\ row.used = 0 /\ row.expires_at > q.t}

VfySelect_Burns(r) ==
  LET q == req[r]
      rows == otpMatches(q) IN
  /\ q.pc = "vfy_select"
  /\ IF rows = {}
     THEN /\ Later(r, q, q.sess, ResLog(401, "Invalid or expired OTP", "invalid_or_expired"))
          /\ otp' = {IF row.user_id = q.uid THEN [row EXCEPT !.used = 1] ELSE row : row \in otp}
     ELSE /\ Goto(r, [q EXCEPT !.pc = "vfy_update",
                               !.row = (CHOOSE x \in rows : \A y \in rows : x.id <= y.id).id])
          /\ otp' = otp
  /\ UNCHANGED <<cmsVars, users, nextUserId, nextOtpId, nextSid, nextSecret, now, histVars, fe>>

VfySelect(r) ==
  LET q == req[r]
      rows == otpMatches(q) IN
  /\ q.pc = "vfy_select"
  /\ IF rows = {}
     THEN Later(r, q, q.sess, ResLog(401, "Invalid or expired OTP", "invalid_or_expired"))
     ELSE Goto(r, [q EXCEPT !.pc = "vfy_update",
                            !.row = (CHOOSE x \in rows : \A y \in rows : x.id <= y.id).id])
  /\ UNCHANGED <<cmsVars, dbVars, nextSid, nextSecret, now, histVars, fe>>

\* verifyOtpCode, second statement: UPDATE otp_codes SET used = 1 WHERE id = ?; resolve(true)
VfyUpdate(r) ==
  LET q == req[r] IN
  /\ q.pc = "vfy_update"
  /\ otp' = {IF row.id = q.row THEN [row EXCEPT !.used = 1] ELSE row : row \in otp}
  /\ consumed' = Put(consumed, q.row, IF q.row \in DOMAIN consumed THEN consumed[q.row] + 1 ELSE 1)
  /\ Goto(r, [q EXCEPT !.pc = "regen"])
  /\ UNCHANGED <<cmsVars, users, nextUserId, nextOtpId, nextSid, nextSecret, now, tokens, authVia,
                 credOk, loggedOut, nReq, fe>>

\* req.session.regenerate and its callback, in login, verify-otp and register:
\* store.destroy(old id), a new identifier and an empty session, the identity bound
\* to it, the answer, and the new session saved by res.end.
regenSess_KeepSecret(q) ==
  [NoSess EXCEPT !.userId = q.user.id,
                 !.lastActivity = IF q.kind = "register" THEN 0 ELSE now,
                 !.csrfSecret = q.sess.csrfSecret]

regenSess(q) ==
  [NoSess EXCEPT !.userId = q.user.id,
                 !.lastActivity = IF q.kind = "register" THEN 0 ELSE now]

\* store.generate: the identifier of the regenerated session
regenSid_Reuse(q) == q.sid

regenSid(q) == nextSid

Regen(r) ==
  LET q == req[r] IN
  /\ q.pc = "regen"
  /\ store' = Put(Remove(store, q.sid), regenSid(q), regenSess(q))
  /\ nextSid' = nextSid + 1
  /\ authVia' = Put(authVia, regenSid(q), q.kind)
  /\ out' = MkOut(r, q, [NoRes EXCEPT !.status = IF q.kind = "register" THEN 201 ELSE 200,
                                      !.body = "user", !.userId = q.user.id,
                                      !.log = IF q.kind = "verify-otp" THEN "otp_verified"
                                              ELSE "login_success"],
                  regenSid(q))
  /\ req' = [req EXCEPT ![r] = Idle]
  /\ UNCHANGED <<cmsVars, dbVars, nextSecret, now, tokens, consumed, credOk, loggedOut, nReq, fe>>

\* session.destroy and its callback (logout, check-activity): the record is deleted,
\* req.session is gone so res.end saves nothing, the cookie is cleared.
Destroyed(r, q, res) ==
  /\ store' = Remove(store, q.sid)
  /\ out' = MkOut(r, q, res, -1)
  /\ req' = [req EXCEPT ![r] = Idle]

\* POST /logout up to its await; without a bound identity it destroys at once
RouteLogout(r) ==
  LET q == req[r] IN
  /\ q.pc = "route"
  /\ q.kind = "logout"
  /\ CsrfOk(q)
  /\ IF q.sess.userId # 0
     THEN Goto(r, [q EXCEPT !.pc = "lo_find", !.sess = CsrfSess(q)])
     ELSE Destroyed(r, q, ResLog(204, "", "logout"))
  /\ nextSecret' = CsrfNext(q)
  /\ UNCHANGED <<cmsVars, dbVars, nextSid, now, histVars, fe>>

\* POST /logout: await findUserById(userId)
LoFind(r) ==
  LET q == req[r] IN
  /\ q.pc = "lo_find"
  /\ Goto(r, [q EXCEPT !.pc = "lo_destroy", !.user = findUserById(q.sess.userId)])
  /\ UNCHANGED <<cmsVars, dbVars, nextSid, nextSecret, now, histVars, fe>>

\* POST /logout: req.session.destroy, 204
LoDestroy(r) ==
  LET q == req[r] IN
  /\ q.pc = "lo_destroy"
  /\ Destroyed(r, q, ResLog(204, "", "logout"))
  /\ loggedOut' = loggedOut \cup {q.sid}
  /\ UNCHANGED <<cmsVars, dbVars, nextSid, nextSecret, now, tokens, authVia, consumed, credOk, nReq, fe>>

\* GET /me up to its await
RouteMe(r) ==
  LET q == req[r]
      sess == CsrfSess(q) IN
  /\ q.pc = "route"
  /\ q.kind = "me"
  /\ IF sess.userId = 0
     THEN Reply(r, q, sess, Res(200, "user null"))
     ELSE Goto(r, [q EXCEPT !.pc = "me_find", !.sess = [sess EXCEPT !.lastActivity = now]])
  /\ nextSecret' = CsrfNext(q)
  /\ UNCHANGED <<cmsVars, dbVars, nextSid, now, histVars, fe>>

MeFind_Trusting(r) ==
  LET q == req[r] IN
  /\ q.pc = "me_find"
  /\ Later(r, q, q.sess, [Res(200, "user") EXCEPT !.userId = q.sess.userId])
  /\ UNCHANGED <<cmsVars, dbVars, nextSid, nextSecret, now, histVars, fe>>

\* GET /me: findUserById(userId)
MeFind(r) ==
  LET q == req[r]
      user == findUserById(q.sess.userId) IN
  /\ q.pc = "me_find"
  /\ IF user = NoUser
     THEN Later(r, q, q.sess, Res(200, "user null"))
     ELSE Later(r, q, q.sess, [Res(200, "user") EXCEPT !.userId = user.id])
  /\ UNCHANGED <<cmsVars, dbVars, nextSid, nextSecret, now, histVars, fe>>

\* POST /heartbeat
Heartbeat(r) ==
  LET q == req[r]
      sess == CsrfSess(q) IN
  /\ q.pc = "route"
  /\ q.kind = "heartbeat"
  /\ CsrfOk(q)
  /\ IF sess.userId # 0
     THEN Reply(r, q, [sess EXCEPT !.lastActivity = now],
                [Res(200, "active") EXCEPT !.userId = sess.userId])
     ELSE Reply(r, q, sess, Res(401, "not active"))
  /\ nextSecret' = CsrfNext(q)
  /\ UNCHANGED <<cmsVars, dbVars, nextSid, now, histVars, fe>>

\* GET /check-activity
afkExpired_AtLimit(sess) == sess.lastActivity # 0 /\ (now - sess.lastActivity) >= AFK_TIMEOUT_MS

afkExpired(sess) == sess.lastActivity # 0 /\ (now - sess.lastActivity) > AFK_TIMEOUT_MS

CheckActivity(r) ==
  LET q == req[r]
      sess == CsrfSess(q) IN
  /\ q.pc = "route"
  /\ q.kind = "check-activity"
  /\ IF sess.userId = 0
     THEN Reply(r, q, sess, Res(200, "not_logged_in"))
     ELSE IF afkExpired(sess)
     THEN Destroyed(r, q, Res(200, "afk_timeout"))
     ELSE Reply(r, q, sess, [Res(200, "active") EXCEPT !.userId = sess.userId])
  /\ nextSecret' = CsrfNext(q)
  /\ UNCHANGED <<cmsVars, dbVars, nextSid, now, histVars, fe>>

\* requireAuth, up to its await (here in front of GET /api/admin/status)
requireAuth(r) ==
  LET q == req[r]
      sess == CsrfSess(q) IN
  /\ q.pc = "route"
  /\ q.kind = "status"
  /\ IF sess.userId = 0
     THEN Reply(r, q, sess, ResLog(401, "Not authenticated", "no_session"))
     ELSE Goto(r, [q EXCEPT !.pc = "auth_find", !.sess = sess])
  /\ nextSecret' = CsrfNext(q)
  /\ UNCHANGED <<cmsVars, dbVars, nextSid, now, histVars, fe>>

\* requireRole(roles), applied to the identity requireAuth resolved
requireRole_Hierarchy(roles, user) ==
  IF user = NoUser THEN ResLog(401, "Not authenticated", "no_user_in_request")
  ELSE IF user.role \notin roles /\ user.role # "admin" THEN ResLog(403, "Forbidden", "insufficient_role")
  ELSE [Res(200, "ok") EXCEPT !.userId = user.id]

requireRole(roles, user) ==
  IF user = NoUser THEN ResLog(401, "Not authenticated", "no_user_in_request")
  ELSE IF user.role \notin roles THEN ResLog(403, "Forbidden", "insufficient_role")
  ELSE [Res(200, "ok") EXCEPT !.userId = user.id]

\* requireAuth: findUserById(sessionUserId); then requireRole(['admin']) and the handler
AuthFind(r) ==
  LET q == req[r]
      dbUser == findUserById(q.sess.userId) IN
  /\ q.pc = "auth_find"
  /\ IF dbUser = NoUser
     THEN Later(r, q, q.sess, ResLog(401, "User not found", "user_not_found"))
     ELSE Later(r, [q EXCEPT !.user = dbUser], q.sess, requireRole({"admin"}, dbUser))
  /\ UNCHANGED <<cmsVars, dbVars, nextSid, nextSecret, now, histVars, fe>>

\* time passes
Tick(d) ==
  /\ now' = now + d
  /\ out' = NoOut
  /\ UNCHANGED <<cmsVars, dbVars, store, nextSid, nextSecret, req, histVars, fe>>

\* ------------------------------------------------------------ the clients
\* Any client: it may present any session cookie it was ever given (or none) and any
\* CSRF token that was ever handed out (or none).
Cookies == DOMAIN store \cup loggedOut \cup {0}
Tokens == {t[1] : t \in tokens} \cup {0}
AnyCt == Cookies \X Tokens
NoToken == Cookies \X {0}

\* A client that follows the protocol: the cookie of a live session together with a
\* token it fetched on that session.
Compliant == {ct \in (DOMAIN store) \X {t[1] : t \in tokens} :
                store[ct[1]].csrfSecret = ct[2] /\ <<ct[2], ct[1]>> \in tokens}

Send(max, r, kind, ct, email, pw, uid, code) ==
  /\ nReq < max
  /\ nReq' = nReq + 1
  /\ Receive(r, kind, ct[1], ct[2], email, pw, uid, code, FALSE)
  /\ fe' = fe

SendPlain(max, kind, cts) == \E r \in Req, ct \in cts : Send(max, r, kind, ct, "", "", 0, "")

SendLogin(max, cts, creds) ==
  \E r \in Req, ct \in cts, c \in creds : Send(max, r, "login", ct, c[1], c[2], 0, "")

SendRegister(max, cts, creds) ==
  \E r \in Req, ct \in cts, c \in creds : Send(max, r, "register", ct, c[1], c[2], 0, "")

SendResendOtp(max, cts, uids) ==
  \E r \in Req, ct \in cts, uid \in uids : Send(max, r, "resend-otp", ct, "", "", uid, "")

SendVerifyOtp(max, cts, uids, codes) ==
  \E r \in Req, ct \in cts, uid \in uids, code \in codes :
    Send(max, r, "verify-otp", ct, "", "", uid, code)

AdminCreds == <<"admin@example.com", "Admin123!">>
EditorCreds == <<"editor@example.com", "Editor123!">>
UserCreds == <<"user@example.com", "User123!">>

\* ---- SpecOtp: the OTP flow.  Login, register, resend-otp and verify-otp of clients
\* ---- that follow the protocol, two requests at a time.
OtpGetCsrfToken == Compliant = {} /\ SendPlain(MaxRequests, "csrf-token", {<<0, 0>>})
OtpPostLogin ==
  SendLogin(MaxRequests, Compliant,
            {AdminCreds, EditorCreds, UserCreds, <<"user@example.com", "wrong">>,
             <<"new@example.com", "User123!">>})
OtpPostRegister == SendRegister(MaxRequests, Compliant, {<<"new@example.com", "User123!">>})
OtpPostResendOtp == SendResendOtp(MaxRequests, Compliant, {1, 2, 3})
OtpPostVerifyOtp == SendVerifyOtp(MaxRequests, Compliant, {3, 4}, Codes)
OtpTick == now < TickMs + MaxOtpTicks * OtpTtlMs /\ Tick(OtpTtlMs)

NextOtp ==
  \/ OtpGetCsrfToken
  \/ OtpPostLogin
  \/ OtpPostRegister
  \/ OtpPostResendOtp
  \/ OtpPostVerifyOtp
  \/ \E r \in Req : CsrfToken(r)
  \/ \E r \in Req : RouteBody(r)
  \/ \E r \in Req : RegFind(r)
  \/ \E r \in Req : RegInsert(r)
  \/ \E r \in Req : RegFetch(r)
  \/ \E r \in Req : LoginFind(r)
  \/ \E r \in Req : RsUser(r)
  \/ \E r \in Req : OtpUpdate(r)
  \/ \E r \in Req : OtpInsert(r)
  \/ \E r \in Req : VfyUser(r)
  \/ \E r \in Req : VfySelect(r)
  \/ \E r \in Req : VfyUpdate(r)
  \/ \E r \in Req : Regen(r)
  \/ OtpTick

SpecOtp == Init /\ [][NextOtp]_vars

\* ---- SpecVerify: concurrent verification.  One user logs in and verify-otp
\* ---- requests for that user run two at a time.
VfyGetCsrfToken == Compliant = {} /\ SendPlain(MaxVerifyRequests, "csrf-token", {<<0, 0>>})
VfyPostLogin == SendLogin(MaxVerifyRequests, Compliant, {UserCreds})
VfyPostVerifyOtp == SendVerifyOtp(MaxVerifyRequests, Compliant, {3}, Codes)

NextVerify ==
  \/ VfyGetCsrfToken
  \/ VfyPostLogin
  \/ VfyPostVerifyOtp
  \/ \E r \in Req : CsrfToken(r)
  \/ \E r \in Req : RouteBody(r)
  \/ \E r \in Req : LoginFind(r)
  \/ \E r \in Req : OtpUpdate(r)
  \/ \E r \in Req : OtpInsert(r)
  \/ \E r \in Req : VfyUser(r)
  \/ \E r \in Req : VfySelect(r)
  \/ \E r \in Req : VfyUpdate(r)
  \/ \E r \in Req : Regen(r)

SpecVerify == Init /\ [][NextVerify]_vars

\* ---- Spec: sessions and CSRF.  Any client against csrf-token, direct login,
\* ---- logout, me and heartbeat, two requests at a time.
GetCsrfToken == SendPlain(MaxSessRequests, "csrf-token", NoToken)
PostLogin == SendLogin(MaxSessRequests, AnyCt, {AdminCreds})
PostLogout == SendPlain(MaxSessRequests, "logout", AnyCt)
GetMe == SendPlain(MaxSessRequests, "me", NoToken)
PostHeartbeat == SendPlain(MaxSessRequests, "heartbeat", AnyCt)

Next ==
  \/ GetCsrfToken
  \/ PostLogin
  \/ PostLogout
  \/ GetMe
  \/ PostHeartbeat
  \/ \E r \in Req : CsrfReject(r)
  \/ \E r \in Req : CsrfToken(r)
  \/ \E r \in Req : RouteBody(r)
  \/ \E r \in Req : LoginFind(r)
  \/ \E r \in Req : Regen(r)
  \/ \E r \in Req : RouteLogout(r)
  \/ \E r \in Req : LoFind(r)
  \/ \E r \in Req : LoDestroy(r)
  \/ \E r \in Req : RouteMe(r)
  \/ \E r \in Req : MeFind(r)
  \/ \E r \in Req : Heartbeat(r)
  \/ \E r \in Req : Finish(r)

Spec == Init /\ [][Next]_vars

\* ---- SpecLogout: logout against requests in flight.  Clients that follow the
\* ---- protocol use csrf-token, direct login, logout and me, two requests at a time.
OwnCookie == (DOMAIN store \cup loggedOut) \X {0}
LoGetCsrfToken == SendPlain(MaxLogoutRequests, "csrf-token", ((DOMAIN store) \X {0}) \cup {<<0, 0>>})
LoPostLogin == SendLogin(MaxLogoutRequests, Compliant, {AdminCreds})
LoPostLogout == SendPlain(MaxLogoutRequests, "logout", Compliant)
LoGetMe == SendPlain(MaxLogoutRequests, "me", OwnCookie)

NextLogout ==
  \/ LoGetCsrfToken
  \/ LoPostLogin
  \/ LoPostLogout
  \/ LoGetMe
  \/ \E r \in Req : CsrfToken(r)
  \/ \E r \in Req : RouteBody(r)
  \/ \E r \in Req : LoginFind(r)
  \/ \E r \in Req : Regen(r)
  \/ \E r \in Req : RouteLogout(r)
  \/ \E r \in Req : LoFind(r)
  \/ \E r \in Req : LoDestroy(r)
  \/ \E r \in Req : RouteMe(r)
  \/ \E r \in Req : MeFind(r)
  \/ \E r \in Req : Finish(r)

SpecLogout == Init /\ [][NextLogout]_vars

\* ---- SpecAfk: idle sessions.  A client logs in directly and, while time passes,
\* ---- calls a protected route and check-activity.
AfkGetCsrfToken == Compliant = {} /\ SendPlain(MaxAfkRequests, "csrf-token", {<<0, 0>>})
AfkPostLogin == SendLogin(MaxAfkRequests, Compliant, {AdminCreds, EditorCreds})
AfkGetStatus == SendPlain(MaxAfkRequests, "status", (DOMAIN store) \X {0})
AfkGetCheckActivity == SendPlain(MaxAfkRequests, "check-activity", (DOMAIN store) \X {0})
AfkTick == now < MaxTicks * TickMs /\ Tick(TickMs)

NextAfk ==
  \/ AfkGetCsrfToken
  \/ AfkPostLogin
  \/ AfkGetStatus
  \/ AfkGetCheckActivity
  \/ \E r \in Req : CsrfToken(r)
  \/ \E r \in Req : RouteBody(r)
  \/ \E r \in Req : LoginFind(r)
  \/ \E r \in Req : Regen(r)
  \/ \E r \in Req : requireAuth(r)
  \/ \E r \in Req : AuthFind(r)
  \/ \E r \in Req : CheckActivity(r)
  \/ \E r \in Req : Finish(r)
  \/ AfkTick

SpecAfk == Init /\ [][NextAfk]_vars

\* ------------------------------------------------------- the front end
\* useAuth.tsx: one browser tab.  csrfToken is the module variable, cookie the
\* browser's sid cookie.  Every call awaits each answer before its next request.
FeSend(kind, token, email, pw, uid, code, pc) ==
  /\ \E r \in Req : Receive(r, kind, fe.cookie, token, email, pw, uid, code, TRUE)
  /\ fe' = [fe EXCEPT !.pc = pc]
  /\ nReq' = nReq

\* the browser's cookie jar after an answer
jar(o) == IF o.setCookie > 0 THEN o.setCookie ELSE IF o.setCookie < 0 THEN 0 ELSE fe.cookie

FeAnswer(kind) == out.fe /\ out.kind = kind

FeKeep == /\ out' = NoOut
          /\ UNCHANGED <<cmsVars, dbVars, store, nextSid, nextSecret, now, req, histVars>>

\* the effect that runs bootstrap() on mount
FeBootstrap ==
  /\ fe.pc = "boot"
  /\ fe' = [fe EXCEPT !.pc = "ensure", !.fn = "bootstrap"]
  /\ FeKeep

\* login(email, password) and register: resetCsrfToken() first
FeLogin(creds) ==
  /\ fe.pc = "ready"
  /\ fe.calls < MaxFeCalls
  /\ fe' = [fe EXCEPT !.pc = "ensure", !.fn = creds, !.csrfToken = 0, !.calls = @ + 1]
  /\ FeKeep

\* verifyOtp(otp), logout(), and the heartbeat interval while a user is set
FeCall(fn) ==
  /\ fe.pc = "ready"
  /\ fe.calls < MaxFeCalls
  /\ fn = "verifyOtp" => fe.otpPending # 0
  /\ fn = "heartbeat" => fe.user # 0
  /\ fe' = [fe EXCEPT !.pc = "ensure", !.fn = fn, !.calls = @ + 1]
  /\ FeKeep

\* ensureCsrfToken(): fetch a token only when none is cached
FeEnsureCsrfToken ==
  /\ fe.pc = "ensure"
  /\ IF fe.csrfToken # 0
     THEN fe' = [fe EXCEPT !.pc = "main"] /\ FeKeep
     ELSE FeSend("csrf-token", 0, "", "", 0, "", "wait_csrf")

FeGotCsrfToken ==
  /\ fe.pc = "wait_csrf"
  /\ FeAnswer("csrf-token")
  /\ fe' = [fe EXCEPT !.pc = "main", !.csrfToken = out.token, !.cookie = jar(out)]
  /\ FeKeep

\* the request of the call itself, with the cached token in X-CSRF-Token
FeRequest ==
  /\ fe.pc = "main"
  /\ CASE fe.fn = "bootstrap" -> FeSend("me", fe.csrfToken, "", "", 0, "", "wait_me")
       [] fe.fn = "verifyOtp" ->
            FeSend("verify-otp", fe.csrfToken, "", "", fe.otpPending, fe.otp, "wait_main")
       [] fe.fn = "logout" -> FeSend("logout", fe.csrfToken, "", "", 0, "", "wait_main")
       [] fe.fn = "heartbeat" -> FeSend("heartbeat", fe.csrfToken, "", "", 0, "", "wait_main")
       [] OTHER -> FeSend("login", fe.csrfToken, fe.fn[1], fe.fn[2], 0, "", "wait_main")

FeGotAnswer ==
  /\ fe.pc = "wait_main"
  /\ out.fe
  /\ LET ok == out.status < 400
         c == jar(out) IN
     fe' = CASE fe.fn = "logout" ->
                  [fe EXCEPT !.pc = "ready", !.cookie = c, !.user = 0, !.otpPending = 0,
                             !.otp = "", !.csrfToken = 0]
             [] fe.fn = "heartbeat" -> [fe EXCEPT !.pc = "ready", !.cookie = c]
             [] fe.fn = "verifyOtp" ->
                  IF ok THEN [fe EXCEPT !.pc = "me", !.cookie = c, !.regen = TRUE]
                  ELSE [fe EXCEPT !.pc = "ready", !.cookie = c]
             [] OTHER ->
                  IF ~ok THEN [fe EXCEPT !.pc = "ready", !.cookie = c]
                  ELSE IF out.body = "requiresOtp"
                  THEN [fe EXCEPT !.pc = "ready", !.cookie = c, !.otpPending = out.userId,
                                  !.otp = out.otp]
                  ELSE [fe EXCEPT !.pc = "me", !.cookie = c, !.regen = TRUE]
  /\ FeKeep

\* api.get('/api/auth/me') after a login or verifyOtp that answered with a user
FeGetMe ==
  /\ fe.pc = "me"
  /\ FeSend("me", fe.csrfToken, "", "", 0, "", "wait_me")

FeGotMe ==
  /\ fe.pc = "wait_me"
  /\ FeAnswer("me")
  /\ fe' = [fe EXCEPT !.pc = "ready", !.cookie = jar(out), !.user = out.userId,
                      !.otpPending = IF fe.fn = "verifyOtp" THEN 0 ELSE @]
  /\ FeKeep

NextFE ==
  \/ FeBootstrap
  \/ FeLogin(AdminCreds)
  \/ FeLogin(UserCreds)
  \/ FeCall("verifyOtp")
  \/ FeCall("logout")
  \/ FeCall("heartbeat")
  \/ FeEnsureCsrfToken
  \/ FeGotCsrfToken
  \/ FeRequest
  \/ FeGotAnswer
  \/ FeGetMe
  \/ FeGotMe
  \/ \E r \in Req : CsrfReject(r)
  \/ \E r \in Req : CsrfToken(r)
  \/ \E r \in Req : RouteBody(r)
  \/ \E r \in Req : LoginFind(r)
  \/ \E r \in Req : OtpUpdate(r)
  \/ \E r \in Req : OtpInsert(r)
  \/ \E r \in Req : VfyUser(r)
  \/ \E r \in Req : VfySelect(r)
  \/ \E r \in Req : VfyUpdate(r)
  \/ \E r \in Req : Regen(r)
  \/ \E r \in Req : RouteLogout(r)
  \/ \E r \in Req : RouteMe(r)
  \/ \E r \in Req : MeFind(r)
  \/ \E r \in Req : Heartbeat(r)
  \/ \E r \in Req : Finish(r)

SpecFE == Init /\ [][NextFE]_vars

\* ------------------------------------------------------------ properties
\* the challenges of identity u that are neither consumed nor expired
activeChallenges(u) == {row \in otp : row.user_id = u /\ row.used = 0 /\ row.expires_at > now}

\* the sessions of the store that are bound to an identity
Bound == {s \in DOMAIN store : store[s].userId # 0}

\* C1: of the verify-otp requests that carry the same valid code, whatever the order of
\* their reads and writes, exactly one succeeds: no challenge is ever successfully
\* consumed by two verifications.
C1_ConsumedOnce == \A row \in DOMAIN consumed : consumed[row] <= 1

\* C2: in every reachable state each identity has at most one challenge that is both
\* unconsumed and unexpired, whatever the interleaving of login, register and resend-otp.
C2_OneActiveChallenge == \A u \in DOMAIN users : Cardinality(activeChallenges(u)) <= 1

\* C3: a session bound to a role-user identity exists only after a login or register
\* verified that identity's credentials earlier in the run; resend-otp and verify-otp
\* alone never produce one.
C3_CredentialsFirst ==
  \A s \in Bound : users[store[s].userId].role = "user" => store[s].userId \in credOk

\* the step in which request r is answered by the callback of regenerate
Authenticates(r) == req[r].pc = "regen" /\ req'[r].pc = "idle"

C4_Step ==
  \A r \in Req : Authenticates(r) =>
    LET old == req[r].sid
        new == out'.setCookie IN
    /\ out'.slot = r /\ out'.body = "user"
    /\ new \notin 0..(nextSid - 1)
    /\ new \notin {old, req[r].cookie}
    /\ old \notin DOMAIN store'
    /\ new \in DOMAIN store' /\ store'[new].userId = req[r].user.id
    /\ \A s \in DOMAIN store' \ {new} : s \in DOMAIN store /\ store'[s] = store[s]

C4_BoundByRegenerate ==
  /\ \A s \in Bound : s \in DOMAIN authVia
  /\ \A r \in Req : req[r].sess.userId # 0 => req[r].sid \in DOMAIN authVia

\* C4: at every transition into AUTHENTICATED (direct login, successful verify-otp) the
\* session identifier is regenerated: the identifier bound afterwards was never issued
\* before and differs from the one the client held, the old identifier's record is gone
\* from the store, and only identifiers created by a regeneration are ever bound.
C4_Regenerated == [][C4_Step]_vars /\ []C4_BoundByRegenerate

\* a verify-otp has just authenticated a client that held another identifier before
C4_Witness ==
  /\ out.kind = "verify-otp" /\ out.body = "user"
  /\ out.cookie # 0 /\ out.setCookie # out.cookie
  /\ out.cookie \notin DOMAIN store
  /\ out.setCookie \in Bound

\* the answer to a successful login or register of a role-user identity
C9_Answer ==
  (out.kind \in {"login", "register"} /\ out.status \in 200..299
     /\ out.userId \in DOMAIN users /\ users[out.userId].role = "user")
  => (out.body = "requiresOtp" /\ out.otp \in Codes /\ out.setCookie \notin Bound)

C9_BoundByVerify ==
  \A s \in Bound : users[store[s].userId].role = "user" =>
    (s \in DOMAIN authVia /\ authVia[s] = "verify-otp")

C9_Step ==
  \A r \in Req :
    (req[r].kind \in {"login", "register"} /\ req[r].user.role = "user" /\ req'[r] # req[r])
    => (\A s \in DOMAIN store' : store'[s].userId # 0 => (s \in DOMAIN store /\ store[s] = store'[s]))

\* C9: a successful login or register of a role-user identity never binds the identity
\* to a session: it answers requiresOtp with the identity's id, no step of it binds any
\* session, and a session bound to a role-user identity is always one that verify-otp
\* created.
C9_UserNeedsOtp == [](C9_Answer /\ C9_BoundByVerify) /\ [][C9_Step]_vars

\* a login with a role-user's correct credentials has just been answered
C9_Witness ==
  /\ out.kind = "login" /\ out.status = 200 /\ out.body = "requiresOtp"
  /\ out.userId \in credOk /\ users[out.userId].role = "user"
  /\ out.cookie \in DOMAIN store /\ store[out.cookie].userId = 0

C10_NoChallenge ==
  /\ \A row \in otp : users[row.user_id].role = "user"
  /\ \A r \in Req : req[r].pc \in {"otp_update", "otp_insert"} => req[r].user.role = "user"

C10_LoginDirect ==
  (out.kind = "login" /\ out.status \in 200..299
     /\ out.userId \in DOMAIN users /\ users[out.userId].role \in {"admin", "editor"})
  => (out.body = "user" /\ out.otp = "" /\ out.setCookie \in Bound
        /\ store[out.setCookie].userId = out.userId)

C10_ResendRefuses ==
  \A r \in Req :
    (req[r].pc = "rs_user" /\ req[r].uid \in DOMAIN users
       /\ users[req[r].uid].role \in {"admin", "editor"} /\ req'[r] # req[r])
    => /\ otp' = otp
       /\ \/ out'.slot = r /\ out'.status = 400
          \/ req'[r].pc = "finish" /\ req'[r].res.status = 400

\* C10: no OTP challenge is ever issued for an admin or editor identity: login
\* authenticates directly from the credentials, resend-otp refuses, and the OTP store
\* never holds a challenge owned by an admin or editor.
C10_StaffNoOtp == [](C10_NoChallenge /\ C10_LoginDirect) /\ [][C10_ResendRefuses]_vars

\* resend-otp has just refused while a session of a directly logged-in admin exists
C10_Witness ==
  /\ out.kind = "resend-otp" /\ out.status = 400
  /\ \E s \in Bound : users[store[s].userId].role = "admin" /\ authVia[s] = "login"
  /\ otp = {}

\* the answer csurf's error gets from errorHandler
Rejected(o) == o.status = ErrRes.status /\ o.body = ErrRes.body

\* the step in which csurf decides on the state-changing request r
CsrfDecides(r) == req[r].pc = "route" /\ Method(req[r].kind) = "POST" /\ req'[r] # req[r]

C6_Step ==
  \A r \in Req :
    (CsrfDecides(r) /\ <<req[r].token, req[r].sid>> \notin tokens)
    => /\ out'.slot = r /\ Rejected(out')
       /\ UNCHANGED <<cmsVars, dbVars, authVia, loggedOut>>
       /\ \A s \in DOMAIN store : s \in DOMAIN store'
       /\ \A s \in DOMAIN store' \ {req[r].sid} : s \in DOMAIN store /\ store'[s] = store[s]
       /\ req[r].sid \in DOMAIN store' =>
            /\ store'[req[r].sid].userId = req[r].sess.userId
            /\ store'[req[r].sid].lastActivity = req[r].sess.lastActivity

AuthDecides(r) == req[r].pc = "route" /\ req[r].kind = "status" /\ req'[r] # req[r]

C5_Step ==
  \A r \in Req :
    (AuthDecides(r) /\ req[r].sess.userId # 0 /\ afkExpired(req[r].sess))
    => (out'.slot = r /\ out'.status = 401 /\ req[r].sid \notin DOMAIN store')

\* C5: when a session has seen neither heartbeat nor an authenticated call for more
\* than 25 minutes, the next request to a route behind requireAuth on that session is
\* rejected and the session is destroyed in the store.
C5_IdleRejected == [][C5_Step]_vars

\* C7: after a regeneration caused by the front end's login or verifyOtp, every
\* state-changing request the front end sends carries a token that is valid for the
\* session the request is made on.
C7_FreshToken ==
  \A r \in Req :
    (req[r].fe /\ req[r].pc = "route" /\ Method(req[r].kind) = "POST" /\ fe.regen)
    => (req[r].token # 0 /\ req[r].token = req[r].sess.csrfSecret)

\* C8: once a logout on an authenticated session has completed, a later me with that
\* session identifier returns user null and the identifier is bound to no identity.
C8_LoggedOut ==
  /\ (out.kind = "me" /\ out.late) => out.userId = 0
  /\ \A r \in Req : req[r].late => req[r].sess.userId = 0

\* C11: once a new challenge has been issued for an identity, a verify-otp for that
\* identity with a code that was issued earlier always fails: verifyOtpCode never
\* resolves true for it.
C11_OldCodeFails == \A r \in Req : req[r].stale => req[r].pc \notin {"vfy_update", "regen"}

\* ---- SpecRole: requireRole on its own.  Two requests stand at a route's
\* ---- requireRole(roles) gate, each with the gate's role list and the identity (or
\* ---- none) that the request carries in req.user.
Roles == {"admin", "editor", "user"}
Gates == SUBSET Roles
GateUsers == {NoUser} \cup {findUserById(u) : u \in DOMAIN users}
AtGate(u, g) == [Idle EXCEPT !.pc = "gate", !.kind = "status", !.user = u, !.roles = g]

InitRole ==
  /\ users = SeedUsers
  /\ nextUserId = 4
  /\ otp = {}
  /\ nextOtpId = 1
  /\ store = <<>>
  /\ nextSid = 1
  /\ nextSecret = 1
  /\ now = TickMs
  /\ req \in [Req -> {AtGate(u, g) : u \in GateUsers, g \in Gates}]
  /\ out = NoOut
  /\ tokens = {}
  /\ authVia = <<>>
  /\ consumed = <<>>
  /\ credOk = {}
  /\ loggedOut = {}
  /\ nReq = 0
  /\ fe = FeInit
  /\ CmsInit

\* the gate answers 401 or 403, or calls next() and the handler answers
RoleGate(r) ==
  LET q == req[r]
      res == requireRole(q.roles, q.user) IN
  /\ q.pc = "gate"
  /\ req' = [req EXCEPT ![r] = [q EXCEPT !.pc = "done", !.res = res]]
  /\ out' = MkOut(r, q, res, 0)
  /\ UNCHANGED <<cmsVars, dbVars, store, nextSid, nextSecret, now, histVars, fe>>

NextRole == \E r \in Req : RoleGate(r)

SpecRole == InitRole /\ [][NextRole]_vars

Answer(r) == IF out'.slot = r THEN out' ELSE req'[r].res
Answered(r) == out'.slot = r \/ req'[r].pc = "finish"

\* what the caller sees of an answer
Seen(a) == <<a.status, a.body, a.userId, a.otp, a.token>>

\* no step of this kind binds or changes a bound session
BindsNothing ==
  \A s \in DOMAIN store' : store'[s].userId # 0 => (s \in DOMAIN store /\ store[s] = store'[s])

C13_Step ==
  \A r \in Req :
    LET user == findUserByEmail(ToLower(req[r].email))
        unknown == user = NoUser
        wrong == user # NoUser /\ ~BcryptCompare(req[r].pw, user.password_hash) IN
    (req[r].pc = "login_find" /\ req'[r] # req[r] /\ (unknown \/ wrong))
    => /\ Answered(r)
       /\ Seen(Answer(r)) = <<401, "Invalid credentials", 0, "", 0>>
       /\ Answer(r).log = (IF unknown THEN "user_not_found" ELSE "bad_password")
       /\ otp' = otp /\ nextOtpId' = nextOtpId /\ credOk' = credOk
       /\ BindsNothing

\* C13: a login with an unknown email and a login with a known email and a wrong
\* password get the same answer (status and body), issue no challenge and bind no
\* session; only the reason written to the security log differs.
C13_SameRejection == [][C13_Step]_vars

\* a login with an unknown email has just been answered
C13_Witness ==
  /\ out.kind = "login" /\ out.log = "user_not_found"
  /\ Seen(out) = <<401, "Invalid credentials", 0, "", 0>>
  /\ otp = {} /\ Bound = {}

\* C14: every failure of an OTP verification looks the same to the caller: verify-otp
\* gives one answer whether the identity does not exist, no challenge has that code, the
\* challenge is expired, or it is already consumed.
C14_SameFailure ==
  (out.kind = "verify-otp" /\ out.status >= 400 /\ ~Rejected(out) /\ out.body # "Invalid payload")
  => Seen(out) = <<401, "Invalid or expired OTP", 0, "", 0>>

\* ---- SpecRegister: registration.  Clients that follow the protocol register a new
\* ---- email, and an email that differs from a seeded one only in letter case.
RegGetCsrfToken == Compliant = {} /\ SendPlain(MaxRegRequests, "csrf-token", {<<0, 0>>})
RegPostRegister ==
  SendRegister(MaxRegRequests, Compliant,
               {<<"new@example.com", "User123!">>, <<"User@example.com", "User123!">>})

NextRegister ==
  \/ RegGetCsrfToken
  \/ RegPostRegister
  \/ \E r \in Req : CsrfToken(r)
  \/ \E r \in Req : RouteBody(r)
  \/ \E r \in Req : RegFind(r)
  \/ \E r \in Req : RegInsert(r)
  \/ \E r \in Req : RegFetch(r)
  \/ \E r \in Req : OtpUpdate(r)
  \/ \E r \in Req : OtpInsert(r)

SpecRegister == Init /\ [][NextRegister]_vars

\* the step in which the register request r gets its answer from the handler
RegisterAnswered(r) ==
  req[r].kind = "register" /\ req[r].pc \in {"reg_find", "reg_insert"} /\ Answered(r)

Conflict(a) == a.status = 409 /\ a.body = "Email already in use"

C15_Step ==
  \A r \in Req :
    (RegisterAnswered(r)
       /\ \E u \in DOMAIN users : users[u].email # req[r].email
                                   /\ ToLower(users[u].email) = ToLower(req[r].email))
    => (Conflict(Answer(r)) /\ users' = users /\ otp' = otp)

\* C15: a register whose email equals an existing identity's email up to letter case
\* is answered 409 Conflict and creates no identity and no challenge.
C15_CaseInsensitiveConflict == [][C15_Step]_vars

C16_OneIdentity == \A u, v \in DOMAIN users : users[u].email = users[v].email => u = v

C16_Step ==
  \A r \in Req :
    (RegisterAnswered(r) /\ \E u \in DOMAIN users : users[u].email = req[r].email)
    => (Conflict(Answer(r)) /\ users' = users /\ otp' = otp)

\* C16: of two registers with the same email, in any interleaving, one creates the
\* identity and is answered requiresOtp, the other is answered 409 Conflict, and exactly
\* one identity has that email.
C16_OneWinsOtherConflict == []C16_OneIdentity /\ [][C16_Step]_vars

\* C17: termination is final: an identifier whose session a logout has destroyed is
\* never again a record of the session store, also when a request on that identifier
\* was in flight during the destroy and saves its session afterwards.
C17_TerminatedStaysGone == \A s \in loggedOut : s \notin DOMAIN store

\* ---- SpecActivity: last-activity.  A client logs in directly and calls me and
\* ---- heartbeat, two requests at a time, while time passes.
ActGetCsrfToken == SendPlain(MaxActRequests, "csrf-token", ((DOMAIN store) \X {0}) \cup {<<0, 0>>})
ActPostLogin == SendLogin(MaxActRequests, Compliant, {AdminCreds})
ActGetMe == SendPlain(MaxActRequests, "me", (DOMAIN store) \X {0})
ActPostHeartbeat == SendPlain(MaxActRequests, "heartbeat", Compliant)
ActTick == now < TickMs + MaxActTicks * TickMs /\ Tick(TickMs)

NextActivity ==
  \/ ActGetCsrfToken
  \/ ActPostLogin
  \/ ActGetMe
  \/ ActPostHeartbeat
  \/ \E r \in Req : CsrfToken(r)
  \/ \E r \in Req : RouteBody(r)
  \/ \E r \in Req : LoginFind(r)
  \/ \E r \in Req : Regen(r)
  \/ \E r \in Req : RouteMe(r)
  \/ \E r \in Req : MeFind(r)
  \/ \E r \in Req : Heartbeat(r)
  \/ \E r \in Req : Finish(r)
  \/ ActTick

SpecActivity == Init /\ [][NextActivity]_vars

ActivityStep(r) == req[r].kind \in {"me", "heartbeat"} /\ req'[r] # req[r]

C18_Step ==
  \A r \in Req : ActivityStep(r) =>
    \A s \in DOMAIN store \cap DOMAIN store' :
      store'[s].lastActivity >= store[s].lastActivity

\* C18: while a session is alive its stored last-activity never decreases, whatever
\* the interleaving of the me and heartbeat requests on it.
C18_ActivityMonotone == [][C18_Step]_vars

C19_Step ==
  \A r \in Req :
    (AuthDecides(r) /\ req'[r].pc = "auth_find") => req'[r].sess.lastActivity = now

\* C19: a request that passes requireAuth's session test has the last-activity of its
\* session set to the current time, as me and heartbeat set it.
C19_AuthRefreshes == [][C19_Step]_vars

CheckDecides(r) == req[r].pc = "route" /\ req[r].kind = "check-activity" /\ req'[r] # req[r]

IdleTime(r) == now - req[r].sess.lastActivity

C20_Step ==
  \A r \in Req : CheckDecides(r) =>
    LET sess == req[r].sess
        sid == req[r].sid IN
    /\ out'.slot = r
    /\ out'.status = 200
    /\ sess.userId = 0 => out'.body = "not_logged_in"
    /\ (sess.userId # 0 /\ IdleTime(r) > AFK_TIMEOUT_MS) =>
         /\ out'.body = "afk_timeout"
         /\ out'.setCookie = -1
         /\ sid \notin DOMAIN store'
    /\ (sess.userId # 0 /\ IdleTime(r) <= AFK_TIMEOUT_MS) =>
         /\ out'.body = "active"
         /\ out'.setCookie # -1
         /\ DOMAIN store' = DOMAIN store
         /\ sid \in DOMAIN store'
         /\ store'[sid].userId = sess.userId
         /\ store'[sid].lastActivity = sess.lastActivity

\* C20: check-activity on a session with a bound identity that has been idle for
\* strictly more than 25 minutes destroys the session and answers afk_timeout, which
\* is not the answer not_logged_in of a caller without identity; idle for at most 25
\* minutes it answers active and the session keeps its identity and last-activity.
C20_CheckActivity == [][C20_Step]_vars

C20_Witness ==
  /\ out.kind = "check-activity"
  /\ out.body = "afk_timeout"
  /\ out.setCookie = -1
  /\ out.cookie \notin DOMAIN store
  /\ now - AFK_TIMEOUT_MS > TickMs

C21_Step ==
  \A r \in Req :
    (CsrfDecides(r) /\ ~CsrfOk(req[r])) => (out'.slot = r /\ out'.status = 403)

\* C21: a state-changing request whose CSRF token is missing or invalid is answered
\* 403 Forbidden, which is neither the answer of an authentication failure (401) nor
\* that of an internal server error (500).
C21_CsrfForbidden == [][C21_Step]_vars

\* a step of a GET request that carries no CSRF token
GetStep(r) == Method(req[r].kind) = "GET" /\ req[r].token = 0 /\ req'[r] # req[r]

C22_Step ==
  \A r \in Req : GetStep(r) =>
    \A s \in DOMAIN store : store[s].userId # 0 =>
      /\ s \in DOMAIN store'
      /\ store'[s].userId = store[s].userId
      /\ store'[s].lastActivity = store[s].lastActivity

\* C22: no GET request sent without a CSRF token alters the identity or the
\* last-activity of an authenticated session or terminates it; such changes are made
\* only by requests that went through CSRF validation.
C22_GetChangesNothing == [][C22_Step]_vars

\* ---- SpecError: the error boundary as a function of the error passed to next(err)
\* ---- and of the status the response had at that moment.
Messages == {"SQLITE_CONSTRAINT: UNIQUE constraint failed: users.email",
             "invalid csrf token",
             "Cannot read properties of undefined"}
Stacks == {"at Statement.run (db.ts)", "at csrf (csurf/index.js)"}
Errors == [message : Messages, stack : Stacks]
StatusCodes == {200, 201, 400, 404}
ErrorKinds == {"register", "status"}
NoLogged == [event |-> "none", message |-> "", stack |-> "", path |-> "", method |-> ""]

AtBoundary(e, sc, k) ==
  [Idle EXCEPT !.pc = "error", !.kind = k] @@ [err |-> e, statusCode |-> sc, logged |-> NoLogged]

InitError ==
  /\ users = SeedUsers
  /\ nextUserId = 4
  /\ otp = {}
  /\ nextOtpId = 1
  /\ store = <<>>
  /\ nextSid = 1
  /\ nextSecret = 1
  /\ now = TickMs
  /\ req \in [Req -> {AtBoundary(e, sc, k) : e \in Errors, sc \in StatusCodes, k \in ErrorKinds}]
  /\ out = NoOut
  /\ tokens = {}
  /\ authVia = <<>>
  /\ consumed = <<>>
  /\ credOk = {}
  /\ loggedOut = {}
  /\ nReq = 0
  /\ fe = FeInit
  /\ CmsInit

\* securityLogger.error('server_error', {message, stack, path, method})
errorLogged(q) ==
  [event |-> "server_error", message |-> q.err.message, stack |-> q.err.stack,
   path |-> q.kind, method |-> Method(q.kind)]

\* res.status(status).json({error: 'Internal server error'})
errorBody_Leaky(err) == err.message

errorBody(err) == "Internal server error"

ErrorBoundary(r) ==
  LET q == req[r]
      res == [NoRes EXCEPT !.status = errorHandler(q.statusCode), !.body = errorBody(q.err),
                           !.log = "server_error"] IN
  /\ q.pc = "error"
  /\ req' = [req EXCEPT ![r] = [q EXCEPT !.pc = "done", !.res = res, !.logged = errorLogged(q)]]
  /\ out' = MkOut(r, q, res, 0)
  /\ UNCHANGED <<cmsVars, dbVars, store, nextSid, nextSecret, now, histVars, fe>>

NextError == \E r \in Req : ErrorBoundary(r)

SpecError == InitError /\ [][NextError]_vars

\* C23: whatever error reaches the error boundary, it is logged with its message and
\* its stack, and the answer has the one fixed body 'Internal server error', which
\* carries neither the message nor the stack nor anything else of the error.
C23_OpaqueError ==
  \A r \in Req : req[r].pc = "done" =>
    LET e == req[r].err
        a == req[r].res IN
    /\ req[r].logged.event = "server_error"
    /\ req[r].logged.message = e.message
    /\ req[r].logged.stack = e.stack
    /\ a.body = "Internal server error"
    /\ a.body \notin Messages \cup Stacks
    /\ <<a.userId, a.otp, a.token>> = <<0, "", 0>>
    /\ a.status >= 400

\* two different errors have been handled and answered
C23_Witness ==
  /\ \A r \in Req : req[r].pc = "done"
  /\ \E r1, r2 \in Req : req[r1].err.message # req[r2].err.message
  /\ out.body = "Internal server error"
  /\ out.status = 500

\* ------------------------------------------------------------- content management
\* Texts are sequences of characters, so that toLowerCase and includes are computed.
LowerChar(c) ==
  CASE c = "S" -> "s" [] c = "E" -> "e" [] c = "C" -> "c" [] c = "U" -> "u"
    [] c = "R" -> "r" [] c = "I" -> "i" [] c = "T" -> "t" [] c = "Y" -> "y"
    [] OTHER -> c

toLowerCase(text) == [i \in 1..Len(text) |-> LowerChar(text[i])]

includes(text, word) ==
  \E i \in 1..(Len(text) - Len(word) + 1) : SubSeq(text, i, i + Len(word) - 1) = word

FORBIDDEN_WORDS == {<<"s", "e", "c", "u", "r", "i", "t", "y">>}

containsForbiddenWords_CaseSensitive(text) ==
  \E word \in FORBIDDEN_WORDS : includes(text, word)

containsForbiddenWords(text) ==
  \E word \in FORBIDDEN_WORDS : includes(toLowerCase(text), toLowerCase(word))

Soup == <<"S", "o", "u", "p">>
Secure == <<"s", "e", "c", "u", "r", "e">>
Security == <<"S", "e", "c", "u", "r", "i", "t", "y">>
Insecurity == <<"i", "n", "S", "E", "C", "U", "R", "I", "T", "Y">>
Texts == {Soup, Secure, Security, Insecurity}

\* an installation with a second admin account, in which the admin, the editor and
\* the user have logged in (sessions 1, 2, 3) and fetched their CSRF tokens, and which
\* holds posts of every status, uploads of every non-admin identity and a challenge
CmsUsers ==
  SeedUsers @@
  (4 :> [email |-> "chef@example.com", password_hash |-> BcryptHash("Chef1234!"), role |-> "admin"])

CmsSessions ==
  [sid \in {1, 2, 3} |-> [userId |-> sid, lastActivity |-> TickMs, csrfSecret |-> sid]]

CmsPosts ==
  (1 :> [title |-> Soup, content |-> Soup, image |-> 1, author_id |-> 1, status |-> "approved"]) @@
  (2 :> [title |-> Soup, content |-> Secure, image |-> 2, author_id |-> 3, status |-> "pending"]) @@
  (3 :> [title |-> Secure, content |-> Soup, image |-> 0, author_id |-> 2, status |-> "rejected"])

CmsFiles ==
  (1 :> [user_id |-> 3, stored |-> 3]) @@
  (2 :> [user_id |-> 2, stored |-> 4])

InitCms ==
  /\ users = CmsUsers
  /\ nextUserId = 5
  /\ otp = {[id |-> 1, user_id |-> 3, code |-> "111111", expires_at |-> TickMs + OtpTtlMs, used |-> 1]}
  /\ nextOtpId = 2
  /\ store = CmsSessions
  /\ nextSid = 4
  /\ nextSecret = 4
  /\ now = TickMs
  /\ req = [r \in Req |-> Idle]
  /\ out = NoOut
  /\ tokens = {<<sid, sid>> : sid \in {1, 2, 3}}
  /\ authVia = (1 :> "login") @@ (2 :> "login") @@ (3 :> "verify-otp")
  /\ consumed = (1 :> 1)
  /\ credOk = {1, 2, 3}
  /\ loggedOut = {}
  /\ nReq = 0
  /\ fe = FeInit
  /\ posts = CmsPosts
  /\ nextPostId = 4
  /\ files = CmsFiles
  /\ nextFileId = 3
  /\ disk = {1, 2, 3, 4}
  /\ nextName = 5

CmsKinds == {"delete-user", "posts-list", "posts-get", "posts-pending", "posts-create",
             "posts-update", "posts-delete", "files-list", "files-download", "files-delete",
             "files-upload"}

\* the requireRole gate of a route (no gate: every role passes)
Gate(kind) ==
  CASE kind \in {"delete-user", "posts-pending"} -> {"admin"}
    [] kind = "posts-update" -> {"admin", "editor"}
    [] OTHER -> Roles

\* A request to the admin, posts or files router arrives with the cookie of a live
\* session and the token of that session.
ReceiveCms(r, kind, sid, id, title, content, file, scan) ==
  /\ req[r].pc = "idle"
  /\ r = "r1" \/ req["r1"].pc # "idle"
  /\ sid \in DOMAIN store
  /\ req' = [req EXCEPT ![r] =
               [Idle EXCEPT !.pc = "route", !.kind = kind, !.cookie = sid,
                            !.token = store[sid].csrfSecret, !.sid = sid,
                            !.sess = store[sid], !.orig = store[sid], !.id = id,
                            !.title = title, !.content = content, !.file = file,
                            !.scan = scan, !.late = sid \in loggedOut]]
  /\ out' = NoOut
  /\ UNCHANGED <<cmsVars, dbVars, store, nextSid, nextSecret, now, tokens, authVia, consumed,
                 credOk, loggedOut>>

SendCms(max, kind, sids, ids, titles, contents, fs, scans) ==
  \E r \in Req, sid \in sids, id \in ids, title \in titles, content \in contents,
     file \in fs, scan \in scans :
    /\ nReq < max
    /\ nReq' = nReq + 1
    /\ ReceiveCms(r, kind, sid, id, title, content, file, scan)
    /\ fe' = fe

Ans(r, q, res) == Later(r, q, q.sess, res)

Rows(res, rows) == [res EXCEPT !.rows = rows]

\* upload.single: multer stores the uploaded file under a unique name
Multer(q) == IF q.file = 1 THEN [q EXCEPT !.stored = nextName] ELSE q

\* the upload directory once multer has stored the request's file, and once the
\* handler has removed it again (fs.unlinkSync(req.file.path))
Stored(q) == IF q.stored # 0 THEN {q.stored} ELSE {}
Uploaded(q) == disk \cup Stored(q)
Unlinked(q) == Uploaded(q) \ Stored(q)

\* POST /api/posts, up to db.run
createPost(r, q) ==
  IF q.title = <<>> \/ q.content = <<>>
  THEN Ans(r, q, Res(400, "Invalid payload")) /\ disk' = Unlinked(q)
  ELSE IF containsForbiddenWords(q.title)
  THEN Ans(r, q, ResLog(400, "not allowed in the title", "forbidden_word_attempt")) /\ disk' = Unlinked(q)
  ELSE IF containsForbiddenWords(q.content)
  THEN Ans(r, q, ResLog(400, "not allowed in the content", "forbidden_word_attempt")) /\ disk' = Unlinked(q)
  ELSE Goto(r, [q EXCEPT !.pc = "pc_insert"]) /\ disk' = Uploaded(q)

\* PUT /api/posts/:id, up to db.get
updatePost(r, q) ==
  IF q.title = <<>> /\ q.content = <<>>
  THEN Ans(r, q, Res(400, "Nothing to update"))
  ELSE IF q.title # <<>> /\ containsForbiddenWords(q.title)
  THEN Ans(r, q, ResLog(400, "not allowed in the title", "forbidden_word_attempt"))
  ELSE IF q.content # <<>> /\ containsForbiddenWords(q.content)
  THEN Ans(r, q, ResLog(400, "not allowed in the content", "forbidden_word_attempt"))
  ELSE Goto(r, [q EXCEPT !.pc = "pu_select"])

\* DELETE /api/admin/users/:id, up to db.get
deleteUser(r, q) ==
  IF q.id = q.user.id
  THEN Ans(r, q, Res(400, "Cannot delete your own account"))
  ELSE Goto(r, [q EXCEPT !.pc = "du_select"])

\* POST /api/files/upload, up to the scan
uploadFile(r, q) ==
  IF q.stored = 0
  THEN Ans(r, q, Res(400, "Missing file"))
  ELSE Goto(r, [q EXCEPT !.pc = "fu_scan"])

firstQuery(kind) ==
  CASE kind = "posts-list" -> "pl_all"
    [] kind = "posts-pending" -> "pp_all"
    [] kind = "posts-get" -> "pg_get"
    [] kind = "posts-delete" -> "pd_select"
    [] kind = "files-list" -> "fl_all"
    [] kind = "files-download" -> "fd_get"
    [] kind = "files-delete" -> "fx_select"

\* requireAuth up to its await, in front of the admin, posts and files routes
CmsAuth(r) ==
  LET q == req[r]
      sess == CsrfSess(q) IN
  /\ q.pc = "route"
  /\ q.kind \in CmsKinds
  /\ CsrfOk(q)
  /\ IF sess.userId = 0
     THEN Reply(r, q, sess, ResLog(401, "Not authenticated", "no_session"))
     ELSE Goto(r, [q EXCEPT !.pc = "auth_find", !.sess = sess])
  /\ nextSecret' = CsrfNext(q)
  /\ UNCHANGED <<cmsVars, dbVars, nextSid, now, histVars, fe>>

\* requireAuth after findUserById, the route's requireRole gate, multer, and the
\* handler up to its first database call
CmsAuthFind(r) ==
  LET q0 == req[r]
      dbUser == findUserById(q0.sess.userId)
      gate == requireRole(Gate(q0.kind), dbUser)
      q == Multer([q0 EXCEPT !.user = dbUser])
      uploads == q0.kind \in {"posts-create", "files-upload"} IN
  /\ q0.pc = "auth_find"
  /\ q0.kind \in CmsKinds
  /\ IF dbUser = NoUser
     THEN Ans(r, q0, ResLog(401, "User not found", "user_not_found")) /\ disk' = disk
     ELSE IF gate.status # 200
     THEN Ans(r, [q0 EXCEPT !.user = dbUser], gate) /\ disk' = disk
     ELSE CASE q.kind = "posts-create" -> createPost(r, q)
            [] q.kind = "posts-update" -> updatePost(r, q) /\ disk' = disk
            [] q.kind = "delete-user" -> deleteUser(r, q) /\ disk' = disk
            [] q.kind = "files-upload" ->
                 uploadFile(r, q) /\ disk' = Uploaded(q)
            [] OTHER -> Goto(r, [q EXCEPT !.pc = firstQuery(q.kind)]) /\ disk' = disk
  /\ nextName' = IF dbUser # NoUser /\ gate.status = 200 /\ uploads /\ q0.file = 1
                 THEN nextName + 1 ELSE nextName
  /\ UNCHANGED <<dbVars, posts, nextPostId, files, nextFileId, nextSid, nextSecret, now,
                 histVars, fe>>

\* what a route returns of a post and of an upload record
PostOut(id) == [id |-> id, author_id |-> posts[id].author_id, status |-> posts[id].status]
FileOut(id) == [id |-> id, user_id |-> files[id].user_id]

isPrivileged_Everyone(user) == TRUE

isPrivileged(user) == user.role = "admin" \/ user.role = "editor"

\* GET /api/posts: db.all
PostsList(r) ==
  LET q == req[r]
      ids == IF isPrivileged(q.user) THEN DOMAIN posts
             ELSE {id \in DOMAIN posts : posts[id].status = "approved"} IN
  /\ q.pc = "pl_all"
  /\ Ans(r, q, Rows(Res(200, "posts"), {PostOut(id) : id \in ids}))
  /\ UNCHANGED <<cmsVars, dbVars, nextSid, nextSecret, now, histVars, fe>>

\* GET /api/posts/pending: db.all
PostsPending(r) ==
  LET q == req[r]
      ids == {id \in DOMAIN posts : posts[id].status = "pending"} IN
  /\ q.pc = "pp_all"
  /\ Ans(r, q, Rows(Res(200, "posts"), {PostOut(id) : id \in ids}))
  /\ UNCHANGED <<cmsVars, dbVars, nextSid, nextSecret, now, histVars, fe>>

\* GET /api/posts/:id: db.get
PostsGet(r) ==
  LET q == req[r] IN
  /\ q.pc = "pg_get"
  /\ IF q.id \notin DOMAIN posts
     THEN Ans(r, q, Res(404, "Post not found"))
     ELSE IF ~isPrivileged(q.user) /\ posts[q.id].status # "approved"
     THEN Ans(r, q, Res(404, "Post not found"))
     ELSE Ans(r, q, Rows(Res(200, "post"), {PostOut(q.id)}))
  /\ UNCHANGED <<cmsVars, dbVars, nextSid, nextSecret, now, histVars, fe>>

\* POST /api/posts: INSERT INTO posts
PostsInsert(r) ==
  LET q == req[r]
      status == IF q.user.role = "admin" THEN "approved" ELSE "pending"
      row == [title |-> q.title, content |-> q.content, image |-> q.stored,
              author_id |-> q.user.id, status |-> status] IN
  /\ q.pc = "pc_insert"
  /\ posts' = Put(posts, nextPostId, row)
  /\ nextPostId' = nextPostId + 1
  /\ Ans(r, q, Rows(ResLog(201, "post", "post_created"),
                    {[id |-> nextPostId, author_id |-> row.author_id, status |-> row.status]}))
  /\ UNCHANGED <<dbVars, files, nextFileId, disk, nextName, nextSid, nextSecret, now, histVars, fe>>

\* PUT /api/posts/:id: SELECT * FROM posts WHERE id = ?
PostsUpdateSelect(r) ==
  LET q == req[r] IN
  /\ q.pc = "pu_select"
  /\ IF q.id \notin DOMAIN posts
     THEN Ans(r, q, Res(404, "Post not found"))
     ELSE Goto(r, [q EXCEPT !.pc = "pu_update",
                            !.title = IF q.title # <<>> THEN q.title ELSE posts[q.id].title,
                            !.content = IF q.content # <<>> THEN q.content
                                        ELSE posts[q.id].content])
  /\ UNCHANGED <<cmsVars, dbVars, nextSid, nextSecret, now, histVars, fe>>

\* PUT /api/posts/:id: UPDATE posts SET title = ?, content = ? ... WHERE id = ?
PostsUpdate(r) ==
  LET q == req[r] IN
  /\ q.pc = "pu_update"
  /\ posts' = IF q.id \in DOMAIN posts
              THEN [posts EXCEPT ![q.id].title = q.title, ![q.id].content = q.content]
              ELSE posts
  /\ Ans(r, q, ResLog(200, "post", "post_updated"))
  /\ UNCHANGED <<dbVars, nextPostId, files, nextFileId, disk, nextName, nextSid, nextSecret, now,
                 histVars, fe>>

mayDeletePost_Editors(user, row) ==
  row.author_id = user.id \/ user.role \in {"admin", "editor"}

mayDeletePost(user, row) == row.author_id = user.id \/ user.role = "admin"

\* DELETE /api/posts/:id: SELECT, the ownership test, the image is unlinked
PostsDeleteSelect(r) ==
  LET q == req[r] IN
  /\ q.pc = "pd_select"
  /\ IF q.id \notin DOMAIN posts
     THEN Ans(r, q, Res(404, "Post not found")) /\ disk' = disk
     ELSE IF ~mayDeletePost(q.user, posts[q.id])
     THEN /\ Ans(r, q, ResLog(403, "You can only delete your own posts",
                              "unauthorized_post_delete_attempt"))
          /\ disk' = disk
     ELSE /\ Goto(r, [q EXCEPT !.pc = "pd_delete"])
          /\ disk' = disk \ {posts[q.id].image}
  /\ UNCHANGED <<dbVars, posts, nextPostId, files, nextFileId, nextName, nextSid, nextSecret,
                 now, histVars, fe>>

\* DELETE /api/posts/:id: DELETE FROM posts WHERE id = ?
PostsDelete(r) ==
  LET q == req[r] IN
  /\ q.pc = "pd_delete"
  /\ posts' = Remove(posts, q.id)
  /\ Ans(r, q, ResLog(204, "", "post_deleted"))
  /\ UNCHANGED <<dbVars, nextPostId, files, nextFileId, disk, nextName, nextSid, nextSecret, now,
                 histVars, fe>>

\* DELETE /api/admin/users/:id: SELECT * FROM users WHERE id = ?
protectedUser_NoOne(user) == FALSE

protectedUser(user) == user.role = "admin"

DeleteUserSelect(r) ==
  LET q == req[r]
      user == findUserById(q.id) IN
  /\ q.pc = "du_select"
  /\ IF user = NoUser
     THEN Ans(r, q, Res(404, "User not found"))
     ELSE IF protectedUser(user)
     THEN Ans(r, q, Res(403, "Cannot delete admin users"))
     ELSE Goto(r, [q EXCEPT !.pc = "du_posts"])
  /\ UNCHANGED <<cmsVars, dbVars, nextSid, nextSecret, now, histVars, fe>>

\* DELETE FROM posts WHERE author_id = ?
DeleteUserPosts(r) ==
  LET q == req[r] IN
  /\ q.pc = "du_posts"
  /\ posts' = [id \in {p \in DOMAIN posts : posts[p].author_id # q.id} |-> posts[id]]
  /\ Goto(r, [q EXCEPT !.pc = "du_files"])
  /\ UNCHANGED <<dbVars, nextPostId, files, nextFileId, disk, nextName, nextSid, nextSecret, now,
                 histVars, fe>>

\* DELETE FROM file_uploads WHERE user_id = ?
DeleteUserFiles(r) ==
  LET q == req[r] IN
  /\ q.pc = "du_files"
  /\ files' = [id \in {f \in DOMAIN files : files[f].user_id # q.id} |-> files[id]]
  /\ Goto(r, [q EXCEPT !.pc = "du_otp"])
  /\ UNCHANGED <<dbVars, posts, nextPostId, nextFileId, disk, nextName, nextSid, nextSecret, now,
                 histVars, fe>>

\* DELETE FROM otp_codes WHERE user_id = ?
DeleteUserOtp(r) ==
  LET q == req[r] IN
  /\ q.pc = "du_otp"
  /\ otp' = {row \in otp : row.user_id # q.id}
  /\ Goto(r, [q EXCEPT !.pc = "du_user"])
  /\ UNCHANGED <<cmsVars, users, nextUserId, nextOtpId, nextSid, nextSecret, now, histVars, fe>>

\* DELETE FROM users WHERE id = ?; then the route answers
DeleteUserRow(r) ==
  LET q == req[r] IN
  /\ q.pc = "du_user"
  /\ users' = Remove(users, q.id)
  /\ Ans(r, q, [ResLog(200, "success", "user_deleted") EXCEPT !.userId = q.id])
  /\ UNCHANGED <<cmsVars, nextUserId, otp, nextOtpId, nextSid, nextSecret, now, histVars, fe>>

\* ---- SpecAdmin: the admin deletes users while the user of session 3 creates a
\* ---- post and asks for a new challenge.
AdminDeleteUser == SendCms(MaxAdminRequests, "delete-user", {1}, {1, 3, 4}, {<<>>}, {<<>>}, {0}, {"none"})
AdminCreatePost == SendCms(MaxAdminRequests, "posts-create", {3}, {0}, {Soup}, {Soup}, {0, 1}, {"none"})
AdminResendOtp == SendResendOtp(MaxAdminRequests, {<<3, 3>>}, {3})

NextAdmin ==
  \/ AdminDeleteUser
  \/ AdminCreatePost
  \/ AdminResendOtp
  \/ \E r \in Req : CmsAuth(r)
  \/ \E r \in Req : CmsAuthFind(r)
  \/ \E r \in Req : DeleteUserSelect(r)
  \/ \E r \in Req : DeleteUserPosts(r)
  \/ \E r \in Req : DeleteUserFiles(r)
  \/ \E r \in Req : DeleteUserOtp(r)
  \/ \E r \in Req : DeleteUserRow(r)
  \/ \E r \in Req : PostsInsert(r)
  \/ \E r \in Req : RouteBody(r)
  \/ \E r \in Req : RsUser(r)
  \/ \E r \in Req : OtpUpdate(r)
  \/ \E r \in Req : OtpInsert(r)

SpecAdmin == InitCms /\ [][NextAdmin]_vars

\* a step of the delete-user request in slot r
DeleteUserStep(r) == req[r].kind = "delete-user" /\ req'[r] # req[r]

Admins == {u \in DOMAIN users : users[u].role = "admin"}

C24_AdminsKept == \A u \in DOMAIN CmsUsers : CmsUsers[u].role = "admin" => u \in DOMAIN users

C24_Step ==
  \A r \in Req : DeleteUserStep(r) =>
    LET self == req[r].id = req[r].sess.userId
        admin == req[r].id \in Admins IN
    /\ Admins \subseteq DOMAIN users'
    /\ req[r].sess.userId \in DOMAIN users => req[r].sess.userId \in DOMAIN users'
    /\ (self \/ admin) =>
         /\ <<users', posts', files', otp', disk'>> = <<users, posts, files, otp, disk>>
         /\ out'.slot = r => out'.status = IF self THEN 400 ELSE 403

\* C24: delete-user removes neither the account of the admin who asks nor any
\* identity whose role is admin; these requests are answered 400 (own account) and
\* 403 (another admin) and none of their steps changes users, posts, files or
\* challenges.
C24_AdminsProtected == []C24_AdminsKept /\ [][C24_Step]_vars

\* the admin of session 1 has just been refused the deletion of the admin 4
C24_Witness ==
  /\ out.kind = "delete-user"
  /\ out.status = 403
  /\ out.body = "Cannot delete admin users"
  /\ 4 \in DOMAIN users
  /\ posts = CmsPosts

\* the identities whose row has been deleted
DeletedUsers == (1..(nextUserId - 1)) \ DOMAIN users

\* C25: once delete-user has removed identity X, no post, upload record or challenge
\* refers to X, whatever X's own requests were doing meanwhile.
C25_NoOrphans ==
  \A x \in DeletedUsers :
    /\ \A p \in DOMAIN posts : posts[p].author_id # x
    /\ \A f \in DOMAIN files : files[f].user_id # x
    /\ \A row \in otp : row.user_id # x

\* ---- SpecPosts: the three sessions read and delete the posts of every status.
PostsGetList == SendCms(MaxPostsRequests, "posts-list", {1, 2, 3}, {0}, {<<>>}, {<<>>}, {0}, {"none"})
PostsGetPending == SendCms(MaxPostsRequests, "posts-pending", {1, 2, 3}, {0}, {<<>>}, {<<>>}, {0}, {"none"})
PostsGetOne == SendCms(MaxPostsRequests, "posts-get", {1, 2, 3}, {1, 2, 3, 4}, {<<>>}, {<<>>}, {0}, {"none"})
PostsDeleteOne == SendCms(MaxPostsRequests, "posts-delete", {1, 2, 3}, {1, 2, 3, 4}, {<<>>}, {<<>>}, {0}, {"none"})

NextPosts ==
  \/ PostsGetList
  \/ PostsGetPending
  \/ PostsGetOne
  \/ PostsDeleteOne
  \/ \E r \in Req : CmsAuth(r)
  \/ \E r \in Req : CmsAuthFind(r)
  \/ \E r \in Req : PostsList(r)
  \/ \E r \in Req : PostsPending(r)
  \/ \E r \in Req : PostsGet(r)
  \/ \E r \in Req : PostsDeleteSelect(r)
  \/ \E r \in Req : PostsDelete(r)

SpecPosts == InitCms /\ [][NextPosts]_vars

\* the role of the identity a response was given to
CallerRole(o) == CmsUsers[CmsSessions[o.cookie].userId].role

\* C26: an identity with role user is never sent a post that is not approved: the
\* list holds approved posts only, a pending or rejected post fetched by id is
\* answered 404 'Post not found' like a missing one, and the pending list is
\* answered 403 to every role but admin.
C26_UsersSeeApproved ==
  /\ (out.kind \in {"posts-list", "posts-get", "posts-pending"} /\ CallerRole(out) = "user") =>
       \A row \in out.rows : row.status = "approved"
  /\ (out.kind = "posts-pending" /\ CallerRole(out) # "admin") =>
       (out.status = 403 /\ out.rows = {})
  /\ (out.kind = "posts-get" /\ CallerRole(out) = "user" /\ out.id \in DOMAIN posts
        /\ posts[out.id].status # "approved") =>
       (out.status = 404 /\ out.body = "Post not found" /\ out.rows = {})
  /\ (out.kind = "posts-get" /\ out.id \notin DOMAIN posts) =>
       (out.status = 404 /\ out.body = "Post not found" /\ out.rows = {})

\* the user has fetched the pending post 2, which is still stored, and got 404
C26_Witness ==
  /\ out.kind = "posts-get"
  /\ CallerRole(out) = "user"
  /\ out.id = 2
  /\ out.status = 404
  /\ 2 \in DOMAIN posts
  /\ posts[2].status = "pending"

\* a step of the delete-post request in slot r, and who sent it
DeletePostStep(r) == req[r].kind = "posts-delete" /\ req'[r] # req[r]
Caller(r) == req[r].sess.userId
AuthorOrAdmin(r) ==
  /\ req[r].id \in DOMAIN posts
  /\ posts[req[r].id].author_id = Caller(r) \/ CmsUsers[Caller(r)].role = "admin"

C27_Step ==
  \A r \in Req : DeletePostStep(r) =>
    /\ posts' # posts =>
         /\ AuthorOrAdmin(r)
         /\ posts' = Remove(posts, req[r].id)
    /\ disk' # disk =>
         /\ AuthorOrAdmin(r)
         /\ disk' = disk \ {posts[req[r].id].image}
    /\ (req[r].pc = "pd_select" /\ req[r].id \in DOMAIN posts /\ ~AuthorOrAdmin(r)) =>
         /\ out'.slot = r
         /\ out'.status = 403
         /\ posts' = posts
         /\ disk' = disk

\* C27: delete-post removes a post, and its image, only for the post's author or an
\* admin; any other caller, an editor on someone else's post included, is answered
\* 403 and the post and its image stay as they were.
C27_AuthorOrAdminDeletes == [][C27_Step]_vars

\* the editor has just been refused the deletion of the admin's post 1
C27_Witness ==
  /\ out.kind = "posts-delete"
  /\ out.status = 403
  /\ CallerRole(out) = "editor"
  /\ out.id = 1
  /\ 1 \in DOMAIN posts
  /\ posts[1].author_id = 1
  /\ posts[1].image \in disk

\* ---- SpecWords: posts are created by the user and updated by the editor and the
\* ---- user, with and without forbidden words.
WordsCreate ==
  SendCms(MaxWordsRequests, "posts-create", {3}, {0}, {<<>>, Soup, Security}, {Soup, Insecurity},
          {0, 1}, {"none"})
WordsUpdate ==
  SendCms(MaxWordsRequests, "posts-update", {2, 3}, {2, 4}, {<<>>, Secure, Security},
          {<<>>, Soup, Insecurity}, {0}, {"none"})

NextWords ==
  \/ WordsCreate
  \/ WordsUpdate
  \/ \E r \in Req : CmsAuth(r)
  \/ \E r \in Req : CmsAuthFind(r)
  \/ \E r \in Req : PostsInsert(r)
  \/ \E r \in Req : PostsUpdateSelect(r)
  \/ \E r \in Req : PostsUpdate(r)

SpecWords == InitCms /\ [][NextWords]_vars

\* a forbidden word occurs in text, whatever the case of its letters
HasForbidden(text) ==
  \E word \in FORBIDDEN_WORDS :
    \E i \in 1..Len(text) :
      /\ i + Len(word) - 1 <= Len(text)
      /\ \A k \in 1..Len(word) : LowerChar(text[i + k - 1]) = LowerChar(word[k])

C28_CleanPosts ==
  \A p \in DOMAIN posts : ~HasForbidden(posts[p].title) /\ ~HasForbidden(posts[p].content)

C28_Step ==
  \A r \in Req :
    (out'.slot = r /\ out'.kind \in {"posts-create", "posts-update"} /\ out'.status >= 400)
    => (posts' = posts /\ disk' = disk)

\* C28: no stored post has a forbidden word, in any case of letters, in its title or
\* its content, after any sequence of create-post and update-post; a create or an
\* update that is rejected leaves the posts table as it was.
C28_NoForbiddenWords == []C28_CleanPosts /\ [][C28_Step]_vars

\* a create whose content holds the word in capitals inside another word was rejected,
\* and an update has changed a stored post
C28_Witness ==
  /\ out.kind = "posts-create"
  /\ out.status = 400
  /\ out.body = "not allowed in the content"
  /\ posts # CmsPosts
  /\ DOMAIN posts = DOMAIN CmsPosts

\* ------------------------------------------------------------- files router
isAdmin(user) == user.role = "admin"

mayAccessFile_Anyone(user, row) == TRUE

mayAccessFile(user, row) == row.user_id = user.id \/ isAdmin(user)

\* GET /api/files/list: db.all
FilesList(r) ==
  LET q == req[r]
      ids == IF isAdmin(q.user) THEN DOMAIN files
             ELSE {id \in DOMAIN files : files[id].user_id = q.user.id} IN
  /\ q.pc = "fl_all"
  /\ Ans(r, q, Rows(Res(200, "files"), {FileOut(id) : id \in ids}))
  /\ UNCHANGED <<cmsVars, dbVars, nextSid, nextSecret, now, histVars, fe>>

\* GET /api/files/download/:id: db.get, the ownership test, fs.existsSync, res.download
FilesDownload(r) ==
  LET q == req[r] IN
  /\ q.pc = "fd_get"
  /\ IF q.id \notin DOMAIN files
     THEN Ans(r, q, Res(404, "File not found"))
     ELSE IF ~mayAccessFile(q.user, files[q.id])
     THEN Ans(r, q, ResLog(403, "Not authorized to download this file",
                           "unauthorized_download_attempt"))
     ELSE IF files[q.id].stored \notin disk
     THEN Ans(r, q, Res(404, "File not found on disk"))
     ELSE Ans(r, q, Rows(ResLog(200, "download", "file_download"), {FileOut(q.id)}))
  /\ UNCHANGED <<cmsVars, dbVars, nextSid, nextSecret, now, histVars, fe>>

\* DELETE /api/files/:id: db.get and the ownership test
FilesDeleteSelect(r) ==
  LET q == req[r] IN
  /\ q.pc = "fx_select"
  /\ IF q.id \notin DOMAIN files
     THEN Ans(r, q, Res(404, "File not found"))
     ELSE IF ~mayAccessFile(q.user, files[q.id])
     THEN Ans(r, q, ResLog(403, "Not authorized to delete this file",
                           "unauthorized_delete_attempt"))
     ELSE Goto(r, [q EXCEPT !.pc = "fx_delete", !.found = files[q.id].stored])
  /\ UNCHANGED <<cmsVars, dbVars, nextSid, nextSecret, now, histVars, fe>>

\* DELETE FROM file_uploads WHERE id = ?; the file is removed from disk
FilesDelete(r) ==
  LET q == req[r] IN
  /\ q.pc = "fx_delete"
  /\ files' = Remove(files, q.id)
  /\ disk' = disk \ {q.found}
  /\ Ans(r, q, ResLog(204, "", "file_deleted"))
  /\ UNCHANGED <<dbVars, posts, nextPostId, nextFileId, nextName, nextSid, nextSecret, now,
                 histVars, fe>>

\* scanFileWithClamAV, by what clamscan did: exit 0, exit 1, or any other failure
ScanOutcomes == {"clean", "infected", "failed"}

scanFileWithClamAV(outcome) ==
  CASE outcome = "infected" -> [clean |-> FALSE, message |-> "Malware detected"]
    [] outcome = "failed" -> [clean |-> TRUE, message |-> "Scan skipped (ClamAV unavailable)"]
    [] OTHER -> [clean |-> TRUE, message |-> "File is clean"]

\* POST /api/files/upload after the scan
FilesScan(r) ==
  LET q == req[r]
      scanResult == scanFileWithClamAV(q.scan) IN
  /\ q.pc = "fu_scan"
  /\ IF ~scanResult.clean
     THEN /\ disk' = disk \ {q.stored}
          /\ Ans(r, q, ResLog(400, "File rejected: potential malware detected", "malware_detected"))
     ELSE /\ disk' = disk
          /\ Goto(r, [q EXCEPT !.pc = "fu_insert"])
  /\ UNCHANGED <<dbVars, posts, nextPostId, files, nextFileId, nextName, nextSid, nextSecret,
                 now, histVars, fe>>

\* INSERT INTO file_uploads
FilesInsert(r) ==
  LET q == req[r] IN
  /\ q.pc = "fu_insert"
  /\ files' = Put(files, nextFileId, [user_id |-> q.user.id, stored |-> q.stored])
  /\ nextFileId' = nextFileId + 1
  /\ Ans(r, q, Rows(ResLog(201, "file", "file_upload"),
                    {[id |-> nextFileId, user_id |-> q.user.id]}))
  /\ UNCHANGED <<dbVars, posts, nextPostId, disk, nextName, nextSid, nextSecret, now, histVars, fe>>

\* ---- SpecFiles: the three sessions list, download and delete the uploads, and the
\* ---- user uploads files that clamscan finds clean, finds infected, or fails on.
FilesGetList == SendCms(MaxFilesRequests, "files-list", {1, 2, 3}, {0}, {<<>>}, {<<>>}, {0}, {"none"})
FilesGetDownload == SendCms(MaxFilesRequests, "files-download", {1, 2, 3}, {1, 2, 3}, {<<>>}, {<<>>}, {0}, {"none"})
FilesDeleteOne == SendCms(MaxFilesRequests, "files-delete", {1, 2, 3}, {1, 2, 3}, {<<>>}, {<<>>}, {0}, {"none"})
FilesPostUpload == SendCms(MaxFilesRequests, "files-upload", {3}, {0}, {<<>>}, {<<>>}, {0, 1}, ScanOutcomes)

NextFiles ==
  \/ FilesGetList
  \/ FilesGetDownload
  \/ FilesDeleteOne
  \/ FilesPostUpload
  \/ \E r \in Req : CmsAuth(r)
  \/ \E r \in Req : CmsAuthFind(r)
  \/ \E r \in Req : FilesList(r)
  \/ \E r \in Req : FilesDownload(r)
  \/ \E r \in Req : FilesDeleteSelect(r)
  \/ \E r \in Req : FilesDelete(r)
  \/ \E r \in Req : FilesScan(r)
  \/ \E r \in Req : FilesInsert(r)

SpecFiles == InitCms /\ [][NextFiles]_vars

\* a step of the download or delete request in slot r, and whether its caller owns
\* the record it names or is an admin
FileStep(r) == req[r].kind \in {"files-download", "files-delete"} /\ req'[r] # req[r]
OwnerOrAdmin(r) ==
  /\ req[r].id \in DOMAIN files
  /\ files[req[r].id].user_id = Caller(r) \/ CmsUsers[Caller(r)].role = "admin"

C29_Answers ==
  /\ (out.kind = "files-list" /\ CallerRole(out) # "admin") =>
       \A row \in out.rows : row.user_id = CmsSessions[out.cookie].userId
  /\ (out.kind = "files-download" /\ CallerRole(out) # "admin") =>
       \A row \in out.rows : row.user_id = CmsSessions[out.cookie].userId

C29_Step ==
  \A r \in Req : FileStep(r) =>
    /\ (files' # files \/ disk' # disk) =>
         /\ req[r].kind = "files-delete"
         /\ OwnerOrAdmin(r)
         /\ files' = Remove(files, req[r].id)
         /\ disk' = disk \ {files[req[r].id].stored}
    /\ (req[r].pc \in {"fd_get", "fx_select"} /\ req[r].id \in DOMAIN files /\ ~OwnerOrAdmin(r)) =>
         /\ out'.slot = r
         /\ out'.status = 403
         /\ out'.rows = {}
         /\ files' = files
         /\ disk' = disk

\* C29: an upload record is downloaded or deleted only by its owner or an admin, the
\* list shows a caller who is not admin only the records it owns, and a download or
\* delete that is denied is answered 403 with the record and the file unchanged.
C29_OwnerOrAdmin == []C29_Answers /\ [][C29_Step]_vars

\* the user has just been refused the deletion of the editor's upload 2
C29_Witness ==
  /\ out.kind = "files-delete"
  /\ out.status = 403
  /\ CallerRole(out) = "user"
  /\ out.id = 2
  /\ 2 \in DOMAIN files
  /\ files[2].user_id = 2
  /\ files[2].stored \in disk

\* the step in which the upload in slot r learns the result of its scan
ScanStep(r) == req[r].pc = "fu_scan" /\ req'[r] # req[r]

C30_Step ==
  \A r \in Req : (ScanStep(r) /\ req[r].scan # "clean") =>
    /\ out'.slot = r
    /\ out'.status = 400
    /\ req[r].stored \notin disk'
    /\ files' = files

\* C30: an upload goes on as clean only when the scan ran and found the file clean;
\* when the file is infected or the scan fails the upload is rejected, the stored
\* file is deleted and no file_uploads record is created.
C30_CleanOnlyWhenScanned == [][C30_Step]_vars

\* ---- SpecServe: requests for the bytes of the uploads and of the post images, sent
\* ---- without a cookie and with the cookies of the three sessions.
\* the files of uploads/posts: the images named by the posts
postImages == {n \in disk : \E id \in DOMAIN posts : posts[id].image = n}

\* GET /api/posts/image/:filename: fs.existsSync and res.sendFile
PostsImage(r) ==
  LET q == req[r]
      sess == CsrfSess(q) IN
  /\ q.pc = "route"
  /\ q.kind = "posts-image"
  /\ IF q.id \in postImages
     THEN Reply(r, q, sess, Res(200, "image"))
     ELSE Reply(r, q, sess, Res(404, "Image not found"))
  /\ nextSecret' = CsrfNext(q)
  /\ UNCHANGED <<cmsVars, dbVars, nextSid, now, histVars, fe>>

ServeCookies == {0, 1, 2, 3}
ServeNames == {1, 2, 3}

\* A request to the posts, files or admin router arrives with any cookie and any
\* token, and express-session loads or generates its session.
ReceiveWith(r, kind, cookie, token, id, title, content) ==
  LET hit == cookie \in DOMAIN store
      sess == IF hit THEN store[cookie] ELSE NoSess IN
  /\ req[r].pc = "idle"
  /\ r = "r1" \/ req["r1"].pc # "idle"
  /\ req' = [req EXCEPT ![r] =
               [Idle EXCEPT !.pc = "route", !.kind = kind, !.cookie = cookie,
                            !.token = token, !.sid = IF hit THEN cookie ELSE nextSid,
                            !.sess = sess, !.orig = sess, !.id = id, !.title = title,
                            !.content = content, !.late = cookie \in loggedOut]]
  /\ nextSid' = IF hit THEN nextSid ELSE nextSid + 1
  /\ out' = NoOut
  /\ UNCHANGED <<cmsVars, dbVars, store, nextSecret, now, tokens, authVia, consumed,
                 credOk, loggedOut, fe>>

ServeSend(kind, ids) ==
  \E r \in Req, cookie \in ServeCookies, id \in ids :
    /\ nReq < MaxServeRequests
    /\ nReq' = nReq + 1
    /\ ReceiveWith(r, kind, cookie, 0, id, <<>>, <<>>)

ServeGetDownload == ServeSend("files-download", {1, 2})
ServeGetImage == ServeSend("posts-image", ServeNames)

NextServe ==
  \/ ServeGetDownload
  \/ ServeGetImage
  \/ \E r \in Req : CmsAuth(r)
  \/ \E r \in Req : CmsAuthFind(r)
  \/ \E r \in Req : FilesDownload(r)
  \/ \E r \in Req : PostsImage(r)

SpecServe == InitCms /\ [][NextServe]_vars

\* the answers that carry the bytes of an uploaded file
ServesBytes(o) ==
  \/ o.kind = "files-download" /\ o.status = 200
  \/ o.kind = "posts-image" /\ o.status = 200

C31_Step ==
  \A r \in Req : (out'.slot = r /\ ServesBytes(out')) => CsrfSess(req[r]).userId # 0

\* C31: every route that returns the bytes of an uploaded file, a general upload or
\* a post image, answers with the bytes only on a session that is bound to an
\* identity; a request without an authenticated session is rejected.
C31_AuthenticatedBytes == [][C31_Step]_vars

\* ---- SpecOrder: PUT /api/posts/:id and DELETE /api/admin/users/:id sent without a
\* ---- cookie, with the cookies of the three sessions and with the cookie of a session
\* ---- a client without identity was given, each without a token, with a token
\* ---- fetched on that session and with the token of another session.
OrderCookies == {0, 1, 2, 3, 4}
OrderTokens(cookie) == {0, 2} \cup {ct[1] : ct \in {p \in tokens : p[2] = cookie}}

OrderSend(kind, id, title) ==
  \E r \in Req, cookie \in OrderCookies :
    \E token \in OrderTokens(cookie) :
      /\ nReq < MaxOrderRequests
      /\ nReq' = nReq + 1
      /\ ReceiveWith(r, kind, cookie, token, id, title, <<>>)

OrderGetCsrfToken ==
  \E r \in Req :
    /\ nReq < MaxOrderRequests
    /\ nReq' = nReq + 1
    /\ ReceiveWith(r, "csrf-token", 0, 0, 0, <<>>, <<>>)

OrderPutPost == OrderSend("posts-update", 1, Secure)
OrderDeleteUser == OrderSend("delete-user", 3, <<>>)

NextOrder ==
  \/ OrderGetCsrfToken
  \/ OrderPutPost
  \/ OrderDeleteUser
  \/ \E r \in Req : CsrfToken(r)
  \/ \E r \in Req : CsrfReject(r)
  \/ \E r \in Req : CmsAuth(r)
  \/ \E r \in Req : CmsAuthFind(r)
  \/ \E r \in Req : PostsUpdateSelect(r)
  \/ \E r \in Req : PostsUpdate(r)
  \/ \E r \in Req : DeleteUserSelect(r)
  \/ \E r \in Req : DeleteUserPosts(r)
  \/ \E r \in Req : DeleteUserFiles(r)
  \/ \E r \in Req : DeleteUserOtp(r)
  \/ \E r \in Req : DeleteUserRow(r)

SpecOrder == InitCms /\ [][NextOrder]_vars

\* the role-gated, state-changing requests; the positions of their handlers; a
\* token that is missing or does not belong to the request's session
GatedKinds == {"posts-update", "delete-user"}
HandlerPcs == {"pu_select", "pu_update", "du_select", "du_posts", "du_files", "du_otp", "du_user"}
BadToken(q) == q.token = 0 \/ q.token # CsrfSess(q).csrfSecret
Tables == <<users, otp, posts, files, disk>>

\* a request is in its handler only with a token of its session, on a session bound
\* to an identity that exists and has a role the route admits
C32_InHandler ==
  \A r \in Req : (req[r].kind \in GatedKinds /\ req[r].pc \in HandlerPcs) =>
    /\ req[r].token # 0
    /\ req[r].token = req[r].sess.csrfSecret
    /\ req[r].sess.userId # 0
    /\ req[r].user.id = req[r].sess.userId
    /\ req[r].user.role \in Gate(req[r].kind)

C32_Step ==
  /\ \A r \in Req : (req[r].kind \in GatedKinds /\ req'[r] # req[r]) =>
       /\ (req[r].pc = "route" /\ BadToken(req[r])) =>
            /\ out'.slot = r
            /\ out'.status >= 400
            /\ req'[r].pc = "idle"
            /\ Tables' = Tables
       /\ (req[r].pc = "route" /\ ~BadToken(req[r]) /\ CsrfSess(req[r]).userId = 0) =>
            /\ out'.slot = r
            /\ out'.status = 401
            /\ req'[r].pc = "idle"
            /\ Tables' = Tables
       /\ (req[r].pc = "route" /\ ~BadToken(req[r]) /\ CsrfSess(req[r]).userId # 0) =>
            /\ out' = NoOut
            /\ req'[r].pc = "auth_find"
            /\ Tables' = Tables
       /\ (/\ req[r].pc = "auth_find"
           /\ req[r].sess.userId \in DOMAIN users
           /\ users[req[r].sess.userId].role \notin Gate(req[r].kind)) =>
            /\ out'.slot = r
            /\ out'.status = 403
            /\ req'[r].pc \in {"idle", "finish"}
            /\ Tables' = Tables
  /\ Tables' # Tables => \E r \in Req : req[r].kind \in GatedKinds /\ req[r].pc \in HandlerPcs

\* C32: a state-changing request to a role-gated route passes CSRF, authentication,
\* role and handler in this order: without a token of its session it is rejected
\* before its identity is looked up, without identity it is answered 401 before the
\* role is tested, with a role the route does not admit it is answered 403, and the
\* handler runs, and the tables change, only once all three have passed.
C32_FixedOrder == []C32_InHandler /\ [][C32_Step]_vars

\* the user has just been refused a post update it sent with its own token, and a
\* request of the admin is in the handler of the user deletion
C32_Witness ==
  /\ out.kind = "posts-update"
  /\ out.status = 403
  /\ out.cookie = 3
  /\ out.xcsrf = 3
  /\ \E r \in Req : req[r].kind = "delete-user" /\ req[r].pc \in HandlerPcs

\* ---- SpecExpiry: the user logs in and verify-otp requests for the user arrive
\* ---- before, at and after the expiry of the challenge (time passes in steps of
\* ---- five minutes).
ExpGetCsrfToken == Compliant = {} /\ SendPlain(MaxExpRequests, "csrf-token", {<<0, 0>>})
ExpPostLogin == SendLogin(MaxExpRequests, Compliant, {UserCreds})
ExpPostVerifyOtp == SendVerifyOtp(MaxExpRequests, Compliant, {3}, Codes)
ExpTick == now < TickMs + MaxExpTicks * TickMs /\ Tick(TickMs)

NextExpiry ==
  \/ ExpGetCsrfToken
  \/ ExpPostLogin
  \/ ExpPostVerifyOtp
  \/ \E r \in Req : CsrfToken(r)
  \/ \E r \in Req : RouteBody(r)
  \/ \E r \in Req : LoginFind(r)
  \/ \E r \in Req : OtpUpdate(r)
  \/ \E r \in Req : OtpInsert(r)
  \/ \E r \in Req : VfyUser(r)
  \/ \E r \in Req : VfySelect(r)
  \/ \E r \in Req : VfyUpdate(r)
  \/ \E r \in Req : Regen(r)
  \/ ExpTick

SpecExpiry == Init /\ [][NextExpiry]_vars

\* the challenges of the identity and code the verification in slot r names that are
\* not consumed
Named(r) == {row \in otp : row.user_id = req[r].uid /\ row.code = req[r].code /\ row.used = 0}

C33_Step ==
  \A r \in Req :
    \* the expiry is fixed ten minutes after the instant of issue, and stored as fixed
    /\ (req[r].pc = "login_find" /\ req'[r].pc = "otp_update") =>
         req'[r].t = now + 10 * 60 * 1000
    /\ (req[r].pc = "otp_insert" /\ req'[r] # req[r]) =>
         \A row \in otp' \ otp : row.expires_at = req[r].t /\ row.used = 0
    \* a verification that read its clock at or after the expiry fails, consuming nothing
    /\ (/\ req[r].pc = "vfy_select" /\ req'[r] # req[r]
        /\ \A row \in Named(r) : req[r].t >= row.expires_at) =>
         /\ out'.slot = r
         /\ out'.status = 401
         /\ otp' = otp
    \* a challenge is consumed only by a verification that read its clock before the expiry
    /\ (req[r].pc = "vfy_update" /\ req'[r] # req[r]) =>
         \A row \in otp : (row.used = 0 /\ row \notin otp') => req[r].t < row.expires_at
    \* and by no other step
    /\ (req[r].pc # "vfy_update" /\ req'[r] # req[r] /\ req[r].kind = "verify-otp") => otp' = otp

\* C33: a challenge expires exactly ten minutes after it was issued and is consumed
\* only strictly before that instant: a verify-otp with the right code whose clock
\* reads the expiry instant or later fails and leaves the challenge unconsumed.
C33_ConsumedBeforeExpiry == [][C33_Step]_vars

\* a verify-otp with the code of the user's only challenge has just failed at the
\* very instant the challenge expires, and the challenge is not consumed
C33_Witness ==
  /\ out.kind = "verify-otp"
  /\ out.status = 401
  /\ \E row \in otp :
       /\ otp = {row}
       /\ row.user_id = 3
       /\ row.code = out.code
       /\ row.used = 0
       /\ row.expires_at = now

\* ---- SpecIdle: the three sessions of the installation stay idle while time passes
\* ---- in steps of fifteen minutes, and send me, heartbeat and check-activity.
IdleGetMe == SendPlain(MaxIdleRequests, "me", (DOMAIN store) \X {0})
IdlePostHeartbeat == SendPlain(MaxIdleRequests, "heartbeat", Compliant)
IdleGetCheckActivity == SendPlain(MaxIdleRequests, "check-activity", (DOMAIN store) \X {0})
\* (a quarter of an hour passes only while no request is being handled)
IdleTick ==
  /\ \A r \in Req : req[r].pc = "idle"
  /\ now < TickMs + MaxIdleTicks * 3 * TickMs
  /\ Tick(3 * TickMs)

NextIdle ==
  \/ IdleGetMe
  \/ IdlePostHeartbeat
  \/ IdleGetCheckActivity
  \/ \E r \in Req : RouteMe(r)
  \/ \E r \in Req : MeFind(r)
  \/ \E r \in Req : Heartbeat(r)
  \/ \E r \in Req : CheckActivity(r)
  \/ \E r \in Req : Finish(r)
  \/ IdleTick

SpecIdle == InitCms /\ [][NextIdle]_vars

\* the me or heartbeat in slot r is handled on a session that has been idle for more
\* than 25 minutes
OnIdleSession(r) ==
  /\ req[r].kind \in {"me", "heartbeat"}
  /\ req[r].pc = "route"
  /\ req'[r] # req[r]
  /\ req[r].sess.userId # 0
  /\ now - req[r].sess.lastActivity > 25 * 60 * 1000

C34_Step ==
  \A r \in Req : OnIdleSession(r) =>
    /\ out'.slot = r => out'.userId = 0
    /\ req'[r].pc # "idle" => req'[r].sess.lastActivity = req[r].sess.lastActivity
    /\ req[r].sid \in DOMAIN store' =>
         store'[req[r].sid].lastActivity = req[r].sess.lastActivity

\* C34: a me or a heartbeat on a session whose idle time has exceeded the 25-minute
\* AFK timeout does not reset its last-activity and does not answer as active or
\* authenticated.
C34_IdleStaysIdle == [][C34_Step]_vars

\* the front end's logout() completes (its POST /logout has been answered) for a user
\* its own login, or login and verifyOtp, had set
FeLogoutCompletes ==
  /\ fe.pc = "wait_main"
  /\ fe.fn = "logout"
  /\ fe.user # 0
  /\ fe'.pc = "ready"

C35_Step ==
  FeLogoutCompletes => (fe'.cookie \in DOMAIN store' => store'[fe'.cookie].userId = 0)

\* C35: when the front end's logout() completes for a user who logged in through
\* the front end, the session the browser's cookie names is destroyed on the server:
\* it is bound to no identity, so a following me with that cookie returns user null.
C35_FeLogoutDestroys == [][C35_Step]_vars

\* ---- SpecFault: logout and check-activity on the three sessions while operations
\* ---- of the database and of the session store may fail.
\* POST /logout: the promise of findUserById rejects (db.get called back with an
\* error).  The await sits outside any try, so the rejection leaves the async handler:
\* a router that watches the promise of a handler passes it to next(err) and
\* errorHandler answers; otherwise nothing is listening and no step of the request
\* follows.
LoFindFails(r) ==
  LET q == req[r] IN
  /\ q.pc = "lo_find"
  /\ \/ Reply(r, q, q.sess, ErrRes)
     \/ Goto(r, [q EXCEPT !.pc = "unanswered"])
  /\ UNCHANGED <<cmsVars, dbVars, nextSid, nextSecret, now, histVars, fe>>

\* GET /check-activity on an idle session: store.destroy calls back with an error.
\* The callback takes no argument and answers all the same; the record stays.
CheckActivityDestroyFails(r) ==
  LET q == req[r]
      sess == CsrfSess(q) IN
  /\ q.pc = "route"
  /\ q.kind = "check-activity"
  /\ sess.userId # 0
  /\ afkExpired(sess)
  /\ store' = store
  /\ out' = MkOut(r, q, Res(200, "afk_timeout"), -1)
  /\ req' = [req EXCEPT ![r] = Idle]
  /\ nextSecret' = CsrfNext(q)
  /\ UNCHANGED <<cmsVars, dbVars, nextSid, now, histVars, fe>>

FaultPostLogout == SendPlain(MaxFaultRequests, "logout", Compliant)
FaultGetCheckActivity == SendPlain(MaxFaultRequests, "check-activity", (DOMAIN store) \X {0})

\* the steps the server takes for the request in slot r
FaultServer(r) ==
  \/ RouteLogout(r)
  \/ LoFind(r)
  \/ LoFindFails(r)
  \/ LoDestroy(r)
  \/ CheckActivity(r)
  \/ CheckActivityDestroyFails(r)

NextFault ==
  \/ FaultPostLogout
  \/ FaultGetCheckActivity
  \/ \E r \in Req : FaultServer(r)
  \/ IdleTick

\* the event loop runs every callback that is ready
SpecFault == InitCms /\ [][NextFault]_vars /\ \A r \in Req : WF_vars(FaultServer(r))

\* C36: every request to an auth endpoint is answered in the end, also when the user
\* lookup of a logout or the session destroy of a check-activity fails.
C36_AlwaysAnswered == \A r \in Req : (req[r].pc # "idle") ~> (out.slot = r)

\* ---- SpecStale: the admin deletes the user while the user's session sends me and
\* ---- files-list, and the user's email is registered again.
StaleDeleteUser == SendCms(MaxStaleRequests, "delete-user", {1}, {3}, {<<>>}, {<<>>}, {0}, {"none"})
StaleGetFiles == SendCms(MaxStaleRequests, "files-list", {3}, {0}, {<<>>}, {<<>>}, {0}, {"none"})
StaleGetMe == SendPlain(MaxStaleRequests, "me", {<<3, 0>>})
StalePostRegister == SendRegister(MaxStaleRequests, {<<2, 2>>}, {UserCreds})

NextStale ==
  \/ StaleDeleteUser
  \/ StaleGetFiles
  \/ StaleGetMe
  \/ StalePostRegister
  \/ \E r \in Req : CmsAuth(r)
  \/ \E r \in Req : CmsAuthFind(r)
  \/ \E r \in Req : DeleteUserSelect(r)
  \/ \E r \in Req : DeleteUserPosts(r)
  \/ \E r \in Req : DeleteUserFiles(r)
  \/ \E r \in Req : DeleteUserOtp(r)
  \/ \E r \in Req : DeleteUserRow(r)
  \/ \E r \in Req : FilesList(r)
  \/ \E r \in Req : RouteMe(r)
  \/ \E r \in Req : MeFind(r)
  \/ \E r \in Req : RouteBody(r)
  \/ \E r \in Req : RegFind(r)
  \/ \E r \in Req : RegInsert(r)
  \/ \E r \in Req : RegFetch(r)
  \/ \E r \in Req : OtpUpdate(r)
  \/ \E r \in Req : OtpInsert(r)

SpecStale == InitCms /\ [][NextStale]_vars

\* the identity the session of the request in slot r is bound to has been deleted
OnStaleSession(r) ==
  /\ req[r].sess.userId \in DOMAIN CmsUsers
  /\ req[r].sess.userId \notin DOMAIN users
  /\ req'[r] # req[r]

C37_Step ==
  /\ \A r \in Req :
       /\ (req[r].pc = "auth_find" /\ OnStaleSession(r)) =>
            /\ Answered(r)
            /\ Answer(r).status = 401
            /\ Answer(r).rows = {}
       /\ (req[r].pc = "me_find" /\ OnStaleSession(r)) =>
            /\ Answered(r)
            /\ Answer(r).body = "user null"
            /\ Answer(r).userId = 0
  /\ \A id \in DOMAIN users' \ DOMAIN users :
       /\ id \notin DOMAIN CmsUsers
       /\ \A s \in DOMAIN store : store[s].userId # id
       /\ \A r \in Req : req[r].sess.userId # id

\* C37: once an identity is deleted, a request on a session still bound to its id is
\* answered 401 by requireAuth and user null by me, and an identity created later
\* never gets the id of an earlier one, so no stale session resolves to another user.
C37_StaleSessionDenied == [][C37_Step]_vars

\* the deleted user's session has just been refused by requireAuth although the
\* user's email has been registered again in the meantime
C37_Witness ==
  /\ out.kind = "files-list"
  /\ out.cookie = 3
  /\ out.status = 401
  /\ out.log = "user_not_found"
  /\ 3 \notin DOMAIN users
  /\ \E id \in DOMAIN users : id \notin DOMAIN CmsUsers /\ users[id].email = "user@example.com"

\* ---- SpecRetry: on the installation, whose first challenge of the user is consumed,
\* ---- the user logs in again and verify-otp arrives with the right code, another
\* ---- code, a code of five digits and an unknown identity, before and after the
\* ---- challenge expires.
RetryCts == Compliant \cap {<<2, 2>>}
RetryPostLogin == SendLogin(MaxRetryRequests, RetryCts, {UserCreds})
RetryPostVerifyOtp == SendVerifyOtp(MaxRetryRequests, RetryCts, {3, 9}, Codes \cup {"12345"})
RetryTick == now < TickMs + MaxRetryTicks * OtpTtlMs /\ Tick(OtpTtlMs)

NextRetry ==
  \/ RetryPostLogin
  \/ RetryPostVerifyOtp
  \/ \E r \in Req : RouteBody(r)
  \/ \E r \in Req : LoginFind(r)
  \/ \E r \in Req : OtpUpdate(r)
  \/ \E r \in Req : OtpInsert(r)
  \/ \E r \in Req : VfyUser(r)
  \/ \E r \in Req : VfySelect(r)
  \/ \E r \in Req : VfyUpdate(r)
  \/ \E r \in Req : Regen(r)
  \/ RetryTick

SpecRetry == InitCms /\ [][NextRetry]_vars

\* a step of the verify-otp in slot r, and the step in which it is answered a failure
VerifyStep(r) == req[r].kind = "verify-otp" /\ req[r].pc # "idle" /\ req'[r] # req[r]
VerifyFails(r) == VerifyStep(r) /\ Answered(r) /\ Answer(r).status >= 400

C38_Step ==
  \A r \in Req :
    \* a failing answer comes with the challenges and the sessions as they were
    /\ VerifyFails(r) =>
         /\ otp' = otp
         /\ store' = store
         /\ req[r].pc \in {"route", "vfy_user", "vfy_select"}
    \* and no earlier step of that request touched them: a verification changes a
    \* challenge only in the UPDATE that follows a SELECT that found it, and a
    \* session only in the regeneration after that
    /\ (VerifyStep(r) /\ req[r].pc \in {"route", "vfy_user", "vfy_select"}) =>
         /\ otp' = otp
         /\ store' = store
    /\ (VerifyStep(r) /\ req[r].pc \in {"vfy_update", "regen"} /\ Answered(r)) =>
         Answer(r).status = 200

\* C38: a verify-otp that fails, by a wrong, expired or consumed code, an unknown
\* identity or a malformed payload, leaves every challenge and the caller's session
\* unchanged, so that the identity's outstanding challenge is still consumable by a
\* later verify-otp with the right code.
C38_FailureChangesNothing == [][C38_Step]_vars

\* a verify-otp for the user with a wrong code has just failed while the user's new
\* challenge is outstanding: unconsumed, unexpired, and with another code
C38_Witness ==
  /\ out.kind = "verify-otp"
  /\ out.status = 401
  /\ \E row \in otp :
       /\ row.user_id = 3
       /\ row.used = 0
       /\ row.expires_at > now
       /\ row.code # out.code
       /\ Len(out.code) = 6

\* ---- SpecOwner: two identities with an outstanding challenge each.  The user has
\* ---- logged in again (challenge 2) and a second user has registered (identity 5,
\* ---- challenge 3), with different codes or with the same code; verify-otp arrives
\* ---- on the sessions of the admin and the editor for either identity with either
\* ---- code.
OwnerUsers ==
  CmsUsers @@
  (5 :> [email |-> "new@example.com", password_hash |-> BcryptHash("User123!"), role |-> "user"])

OwnerOtp(code) ==
  {[id |-> 1, user_id |-> 3, code |-> "111111", expires_at |-> TickMs + OtpTtlMs, used |-> 1],
   [id |-> 2, user_id |-> 3, code |-> code, expires_at |-> TickMs + OtpTtlMs, used |-> 0],
   [id |-> 3, user_id |-> 5, code |-> "111111", expires_at |-> TickMs + OtpTtlMs, used |-> 0]}

InitOwner ==
  /\ users = OwnerUsers
  /\ nextUserId = 6
  /\ otp \in {OwnerOtp(code) : code \in Codes}
  /\ nextOtpId = 4
  /\ store = CmsSessions
  /\ nextSid = 4
  /\ nextSecret = 4
  /\ now = TickMs
  /\ req = [r \in Req |-> Idle]
  /\ out = NoOut
  /\ tokens = {<<sid, sid>> : sid \in {1, 2, 3}}
  /\ authVia = (1 :> "login") @@ (2 :> "login") @@ (3 :> "verify-otp")
  /\ consumed = (1 :> 1)
  /\ credOk = {1, 2, 3, 5}
  /\ loggedOut = {}
  /\ nReq = 0
  /\ fe = FeInit
  /\ CmsInit

OwnerPostVerifyOtp ==
  SendVerifyOtp(MaxOwnerRequests, Compliant \cap {<<1, 1>>, <<2, 2>>}, {3, 5}, Codes)

NextOwner ==
  \/ OwnerPostVerifyOtp
  \/ \E r \in Req : RouteBody(r)
  \/ \E r \in Req : VfyUser(r)
  \/ \E r \in Req : VfySelect(r)
  \/ \E r \in Req : VfyUpdate(r)
  \/ \E r \in Req : Regen(r)

SpecOwner == InitOwner /\ [][NextOwner]_vars

C39_Step ==
  \A r \in Req : (req[r].kind = "verify-otp" /\ req'[r] # req[r]) =>
    \* what the verification consumes is a challenge of the identity it names, with
    \* the code it carries
    /\ \A row \in otp \ otp' : row.user_id = req[r].uid /\ row.code = req[r].code
    \* it succeeds only having consumed such a challenge, and binds that identity
    /\ (out'.slot = r /\ out'.status = 200) =>
         /\ out'.userId = req[r].uid
         /\ \E row \in otp :
              /\ row.id = req[r].row
              /\ row.user_id = req[r].uid
              /\ row.code = req[r].code
              /\ row.used = 1
         /\ \A s \in DOMAIN store' :
              (s \notin DOMAIN store \/ store'[s] # store[s]) => store'[s].userId = req[r].uid

\* C39: a verify-otp naming identity Y consumes only a challenge of Y, succeeds only
\* by consuming one, and binds the session it creates to Y: a code issued for
\* another identity is neither accepted nor consumed.
C39_CodeBoundToIdentity == [][C39_Step]_vars

\* the code of the user's outstanding challenge has just been refused for another
\* identity (for the user it would have been accepted), and the challenge is unconsumed
C39_Witness ==
  /\ out.kind = "verify-otp"
  /\ out.status = 401
  /\ out.code = "222222"
  /\ nextOtpId = 4
  /\ \E row \in otp : row.id = 2 /\ row.user_id = 3 /\ row.code = "222222" /\ row.used = 0
  /\ \E row \in otp : row.id = 3 /\ row.user_id = 5 /\ row.code = "111111" /\ row.used = 0
  /\ Bound = {1, 2, 3}

====
